---- MODULE Spec2Model ----
(***************************************************************************)
(* Axe Annotate: the task queue and session worker of main.py, and the     *)
(* resource handle acquirer of excel_ops.py, as state machines.            *)
(*                                                                         *)
(* Spec        the threads of main.py: hotkey handlers, the prompt dialog  *)
(*             threads, the health-check threads, the worker and main.     *)
(* LiveWorker  Spec with the worker thread scheduled fairly (every call    *)
(*             the worker makes returns).                                  *)
(* LiveMain    Spec with only the main thread scheduled fairly (the worker *)
(*             may be stuck in a host call for ever).                      *)
(* AcqSpec     excel_ops.get_active_selection against a host whose state   *)
(*             the user changes between the steps of an attempt.           *)
(*                                                                         *)
(* The model follows the threads up to the return of main(); what the      *)
(* interpreter does to the daemon worker after that is not modelled.       *)
(***************************************************************************)
EXTENDS Integers, Sequences, FiniteSets

\* ------------------------------------------------------------------------
\* Bounds
\* ------------------------------------------------------------------------
MaxReq == 2        \* requests the hotkeys enqueue in one run
MaxDialogs == 1    \* prompt dialog threads open at the same time
MaxHealth == 1     \* health-check threads alive at the same time
MaxRow == 2        \* rows of a sheet of the host
MaxCtxRow == 3     \* rows a selection passed to get_context can lie in
MaxCtxCol == 3     \* columns a selection passed to get_context can lie in
MaxNoteRow == 2    \* cells of the column add_note_to_cell acts on

\* ------------------------------------------------------------------------
\* main.py: tasks, queue, threads
\* ------------------------------------------------------------------------
NumWorkersTwo == 2
NumWorkers == 1

Workers == 1..NumWorkers
HealthThreads == 1..MaxHealth

NoneTask == [id |-> 0, mode |-> "None", payload |-> "None"]
V1Task(n) == [id |-> n, mode |-> "v1", payload |-> "None"]
V2Task(n, prompt) == [id |-> n, mode |-> "v2", payload |-> prompt]

Prompts == {"q"}

\* queue.Queue.get: the oldest item, and the queue without it
QueueGetLifo(q) == <<q[Len(q)], SubSeq(q, 1, Len(q) - 1)>>
QueueGetPeek(q) == <<Head(q), q>>
QueueGet(q) == <<Head(q), Tail(q)>>

\* queue.Queue.put on an unbounded queue
QueuePut(q, t) == Append(q, t)

\* queue.Queue(): maxsize 0, and a put waits while `maxsize > 0 and
\* qsize() >= maxsize`
maxsize == 0
\* a queue with room for one item
QueueFullAtOne(q) == Len(q) >= 1
QueueFull(q) == maxsize > 0 /\ Len(q) >= maxsize

\* `if task is None`
IsSentinelNever(t) == FALSE
IsSentinel(t) == t = NoneTask

\* positions of the worker inside worker_loop
IdlePcs == {"loop", "pump", "poll"}
ProcPcs == {"acquire", "extract", "fetch", "attach", "cooldown"}
HostPcs == {"test", "pump", "acquire", "extract", "attach"}

\* `except Exception as e: print(...)` around the core annotation logic:
\* control falls through to the cooldown
InnerExceptCrash == "crashed"
InnerExcept == "cooldown"

\* `except Exception as e: print("Fatal Loop Error")` around the loop body:
\* control goes back to the loop test
OuterExcept == "loop"

\* a `return` where the sentinel is seen
BreakReturns == "stopped"
\* `if task is None: break`: control goes to the statement after the loop,
\* pythoncom.CoUninitialize()
Break == "uninit"

VARIABLES
    task_queue,       \* queue.Queue(): sequence of tasks, oldest first
    unfinished,       \* queue.Queue.unfinished_tasks
    shutdown_flag,    \* threading.Event
    wpc,              \* worker -> position in worker_loop
    task,             \* worker -> local variable `task`
    mpc,              \* position of main()
    dialogs,          \* number of ui_step threads with the dialog open
    hpc,              \* health thread -> position in check_step
    nextId,           \* identity of the next request (history)
    enqLog,           \* ids in the order of their put (history, 0 = None)
    callLog,          \* <<id, step>> in the order the worker ran them
    com,              \* worker -> its CoInitialize and CoUninitialize calls
    handle            \* worker -> locals `app, book, sheet, selection`: the
                      \* id of the request whose acquire returned them, 0
                      \* for the four None and before the first request

wvars == <<task_queue, unfinished, shutdown_flag, wpc, task, mpc, dialogs,
           hpc, nextId, enqLog, callLog, com, handle>>

WInit ==
    /\ handle = [w \in Workers |-> 0]
    /\ com = [w \in Workers |-> [init |-> 0, uninit |-> 0]]
    /\ task_queue = <<>>
    /\ unfinished = 0
    /\ shutdown_flag = FALSE
    /\ wpc = [w \in Workers |-> "start"]
    /\ task = [w \in Workers |-> NoneTask]
    /\ mpc = "wait"
    /\ dialogs = 0
    /\ hpc = [h \in HealthThreads |-> "idle"]
    /\ nextId = 1
    /\ enqLog = <<>>
    /\ callLog = <<>>

\* task_queue.put(t)
Put(t) ==
    /\ ~QueueFull(task_queue)
    /\ task_queue' = QueuePut(task_queue, t)
    /\ unfinished' = unfinished + 1
    /\ enqLog' = Append(enqLog, t.id)

\* a worker that forgets task_queue.task_done()
TaskDoneSkipped == UNCHANGED unfinished
\* task_queue.task_done()
TaskDone == unfinished' = unfinished - 1

Log(w, step) == callLog' = Append(callLog, <<task[w].id, step>>)

\* ---- trigger layer ------------------------------------------------------

\* on_hotkey_v1
HotkeyV1 ==
    /\ mpc # "done"
    /\ nextId <= MaxReq
    /\ Put(V1Task(nextId))
    /\ nextId' = nextId + 1
    /\ UNCHANGED <<shutdown_flag, wpc, task, mpc, dialogs, hpc, callLog, com,
                   handle>>

\* on_hotkey_v2: starts a ui_step thread that shows the dialog
HotkeyV2 ==
    /\ mpc # "done"
    /\ dialogs < MaxDialogs
    /\ dialogs' = dialogs + 1
    /\ UNCHANGED <<task_queue, unfinished, shutdown_flag, wpc, task, mpc, hpc,
                   nextId, enqLog, callLog, com, handle>>

\* ui_step: the dialog returned a non-empty prompt
UiSubmit ==
    /\ dialogs > 0
    /\ nextId <= MaxReq
    /\ \E p \in Prompts : Put(V2Task(nextId, p))
    /\ nextId' = nextId + 1
    /\ dialogs' = dialogs - 1
    /\ UNCHANGED <<shutdown_flag, wpc, task, mpc, hpc, callLog, com, handle>>

\* ui_step: the dialog was cancelled, returned "" or raised
UiCancel ==
    /\ dialogs > 0
    /\ dialogs' = dialogs - 1
    /\ UNCHANGED <<task_queue, unfinished, shutdown_flag, wpc, task, mpc, hpc,
                   nextId, enqLog, callLog, com, handle>>

\* on_health_check: starts a check_step thread
HotkeyHealth(h) ==
    /\ mpc # "done"
    /\ hpc[h] = "idle"
    /\ hpc' = [hpc EXCEPT ![h] = "check"]
    /\ UNCHANGED <<task_queue, unfinished, shutdown_flag, wpc, task, mpc,
                   dialogs, nextId, enqLog, callLog, com, handle>>

\* check_step runs to its end on its own thread:
\* CoInitialize; excel_ops.test_connection(); CoUninitialize; print
HealthStep(h) ==
    /\ hpc[h] = "check"
    /\ hpc' = [hpc EXCEPT ![h] = "idle"]
    /\ UNCHANGED <<task_queue, unfinished, shutdown_flag, wpc, task, mpc,
                   dialogs, nextId, enqLog, callLog, com, handle>>

\* ---- worker_loop --------------------------------------------------------

\* print("Thread Started"); pythoncom.CoInitialize()
WorkerStart(w) ==
    /\ wpc[w] = "start"
    /\ wpc' = [wpc EXCEPT ![w] = "test"]
    /\ com' = [com EXCEPT ![w].init = @ + 1]
    /\ UNCHANGED <<task_queue, unfinished, shutdown_flag, task, mpc, dialogs,
                   hpc, nextId, enqLog, callLog, handle>>

\* excel_ops.test_connection(): reads the host, catches what it raises and
\* returns; the worker goes on whatever the answer
WorkerTest(w) ==
    /\ wpc[w] = "test"
    /\ wpc' = [wpc EXCEPT ![w] = "loop"]
    /\ UNCHANGED <<task_queue, unfinished, shutdown_flag, task, mpc, dialogs,
                   hpc, nextId, enqLog, callLog, com, handle>>

\* `while True`
WorkerLoopForever(w) ==
    /\ wpc[w] = "loop"
    /\ wpc' = [wpc EXCEPT ![w] = "pump"]
    /\ UNCHANGED <<task_queue, unfinished, shutdown_flag, task, mpc, dialogs,
                   hpc, nextId, enqLog, callLog, com, handle>>
\* `while not shutdown_flag.is_set()`
WorkerLoop(w) ==
    /\ wpc[w] = "loop"
    /\ wpc' = [wpc EXCEPT ![w] = IF shutdown_flag THEN "uninit" ELSE "pump"]
    /\ UNCHANGED <<task_queue, unfinished, shutdown_flag, task, mpc, dialogs,
                   hpc, nextId, enqLog, callLog, com, handle>>

\* pythoncom.PumpWaitingMessages(): returns, or raises into the outer except
WorkerPump(w) ==
    /\ wpc[w] = "pump"
    /\ \E raised \in BOOLEAN :
          wpc' = [wpc EXCEPT ![w] = IF raised THEN OuterExcept ELSE "poll"]
    /\ UNCHANGED <<task_queue, unfinished, shutdown_flag, task, mpc, dialogs,
                   hpc, nextId, enqLog, callLog, com, handle>>

\* task_queue.get() with no timeout: an empty queue keeps the worker waiting
WorkerPollBlocking(w) ==
    /\ wpc[w] = "poll"
    /\ task_queue = <<>>
    /\ FALSE
    /\ UNCHANGED wvars
\* task_queue.get(timeout=0.1) raised queue.Empty: continue
WorkerPollEmpty(w) ==
    /\ wpc[w] = "poll"
    /\ task_queue = <<>>
    /\ wpc' = [wpc EXCEPT ![w] = "loop"]
    /\ UNCHANGED <<task_queue, unfinished, shutdown_flag, task, mpc, dialogs,
                   hpc, nextId, enqLog, callLog, com, handle>>

\* task_queue.get returned an item; the sentinel breaks out of the loop
WorkerGet(w) ==
    /\ wpc[w] = "poll"
    /\ task_queue # <<>>
    /\ LET got == QueueGet(task_queue) IN
          /\ task_queue' = got[2]
          /\ task' = [task EXCEPT ![w] = got[1]]
          /\ IF IsSentinel(got[1])
                THEN /\ wpc' = [wpc EXCEPT ![w] = Break]
                     /\ UNCHANGED callLog
                ELSE /\ wpc' = [wpc EXCEPT ![w] = "acquire"]
                     /\ callLog' = Append(callLog, <<got[1].id, "dequeue">>)
    /\ UNCHANGED <<unfinished, shutdown_flag, mpc, dialogs, hpc, nextId,
                   enqLog, com, handle>>

\* a worker without the `if not selection` test
WorkerAcquireUnchecked(w) ==
    /\ wpc[w] = "acquire"
    /\ \E outcome \in {"handle", "none", "raise"} :
          /\ wpc' = [wpc EXCEPT ![w] = IF outcome = "raise" THEN InnerExcept
                                                            ELSE "extract"]
          /\ handle' = [handle EXCEPT ![w] =
                           IF outcome = "handle" THEN task[w].id
                           ELSE IF outcome = "none" THEN 0 ELSE @]
    /\ Log(w, "acquire")
    /\ UNCHANGED <<task_queue, unfinished, shutdown_flag, task, mpc, dialogs,
                   hpc, nextId, enqLog, com>>
\* Step 1: `app, book, sheet, selection = excel_ops.get_active_selection()`
\* and `if not selection`; a call that raises assigns nothing
WorkerAcquire(w) ==
    /\ wpc[w] = "acquire"
    /\ \E outcome \in {"handle", "none", "raise"} :
          CASE outcome = "handle" ->
                  /\ wpc' = [wpc EXCEPT ![w] = "extract"]
                  /\ handle' = [handle EXCEPT ![w] = task[w].id]
                  /\ Log(w, "acquire")
                  /\ UNCHANGED unfinished
            [] outcome = "none" ->
                  /\ wpc' = [wpc EXCEPT ![w] = "loop"]
                  /\ handle' = [handle EXCEPT ![w] = 0]
                  /\ callLog' = callLog \o <<<<task[w].id, "acquire">>,
                                             <<task[w].id, "end">>>>
                  /\ TaskDone
            [] OTHER ->
                  /\ wpc' = [wpc EXCEPT ![w] = InnerExcept]
                  /\ Log(w, "acquire")
                  /\ UNCHANGED <<unfinished, handle>>
    /\ UNCHANGED <<task_queue, shutdown_flag, task, mpc, dialogs, hpc, nextId,
                   enqLog, com>>

\* Step 2: excel_ops.get_context(selection)
WorkerExtract(w) ==
    /\ wpc[w] = "extract"
    /\ \E raised \in BOOLEAN :
          wpc' = [wpc EXCEPT ![w] = IF raised THEN InnerExcept ELSE "fetch"]
    /\ Log(w, "extract")
    /\ UNCHANGED <<task_queue, unfinished, shutdown_flag, task, mpc, dialogs,
                   hpc, nextId, enqLog, com, handle>>

\* Steps 3 and 4: data_fetcher.fetch_comments and the prompt of a v2 task
WorkerFetchCancellable(w) ==
    /\ wpc[w] = "fetch"
    /\ wpc' = [wpc EXCEPT ![w] = IF shutdown_flag THEN "uninit" ELSE "attach"]
    /\ Log(w, "fetch")
    /\ UNCHANGED <<task_queue, unfinished, shutdown_flag, task, mpc, dialogs,
                   hpc, nextId, enqLog, com, handle>>
WorkerFetch(w) ==
    /\ wpc[w] = "fetch"
    /\ \E raised \in BOOLEAN :
          wpc' = [wpc EXCEPT ![w] = IF raised THEN InnerExcept ELSE "attach"]
    /\ Log(w, "fetch")
    /\ UNCHANGED <<task_queue, unfinished, shutdown_flag, task, mpc, dialogs,
                   hpc, nextId, enqLog, com, handle>>

\* Step 5: excel_ops.add_note_to_cell(selection, comments): True, False or
\* an exception all lead to the cooldown
WorkerAttach(w) ==
    /\ wpc[w] = "attach"
    /\ \E outcome \in {"true", "false", "raise"} :
          wpc' = [wpc EXCEPT ![w] = IF outcome = "raise" THEN InnerExcept
                                                         ELSE "cooldown"]
    /\ Log(w, "attach")
    /\ UNCHANGED <<task_queue, unfinished, shutdown_flag, task, mpc, dialogs,
                   hpc, nextId, enqLog, com, handle>>

\* a worker that puts the request back on the queue at the end
WorkerCooldownRequeue(w) ==
    /\ wpc[w] = "cooldown"
    /\ wpc' = [wpc EXCEPT ![w] = "loop"]
    /\ task_queue' = QueuePut(task_queue, task[w])
    /\ TaskDone
    /\ Log(w, "end")
    /\ UNCHANGED <<shutdown_flag, task, mpc, dialogs, hpc, nextId, enqLog,
                   com, handle>>
\* time.sleep(0.2); task_queue.task_done()
WorkerCooldown(w) ==
    /\ wpc[w] = "cooldown"
    /\ wpc' = [wpc EXCEPT ![w] = "loop"]
    /\ TaskDone
    /\ Log(w, "end")
    /\ UNCHANGED <<task_queue, shutdown_flag, task, mpc, dialogs, hpc, nextId,
                   enqLog, com, handle>>

\* pythoncom.CoUninitialize(); print("Thread Stopped")
WorkerUninit(w) ==
    /\ wpc[w] = "uninit"
    /\ wpc' = [wpc EXCEPT ![w] = "stopped"]
    /\ com' = [com EXCEPT ![w].uninit = @ + 1]
    /\ UNCHANGED <<task_queue, unfinished, shutdown_flag, task, mpc, dialogs,
                   hpc, nextId, enqLog, callLog, handle>>

WorkerStep(w) ==
    \/ WorkerStart(w)
    \/ WorkerTest(w)
    \/ WorkerLoop(w)
    \/ WorkerPump(w)
    \/ WorkerPollEmpty(w)
    \/ WorkerGet(w)
    \/ WorkerAcquire(w)
    \/ WorkerExtract(w)
    \/ WorkerFetch(w)
    \/ WorkerAttach(w)
    \/ WorkerCooldown(w)
    \/ WorkerUninit(w)

\* ---- main ---------------------------------------------------------------

AllStopped == \A w \in Workers : wpc[w] = "stopped"

\* keyboard.wait('esc') returns
MainEsc ==
    /\ mpc = "wait"
    /\ mpc' = "set"
    /\ UNCHANGED <<task_queue, unfinished, shutdown_flag, wpc, task, dialogs,
                   hpc, nextId, enqLog, callLog, com, handle>>

\* shutdown_flag.set()
MainSetFlag ==
    /\ mpc = "set"
    /\ shutdown_flag' = TRUE
    /\ mpc' = "put"
    /\ UNCHANGED <<task_queue, unfinished, wpc, task, dialogs, hpc, nextId,
                   enqLog, callLog, com, handle>>

\* task_queue.put(None)
MainPutSentinel ==
    /\ mpc = "put"
    /\ Put(NoneTask)
    /\ mpc' = "join"
    /\ UNCHANGED <<shutdown_flag, wpc, task, dialogs, hpc, nextId, callLog,
                   com, handle>>

\* worker.join(timeout=2) returns because the worker thread has ended
MainJoinStopped ==
    /\ mpc = "join"
    /\ AllStopped
    /\ mpc' = "done"
    /\ UNCHANGED <<task_queue, unfinished, shutdown_flag, wpc, task, dialogs,
                   hpc, nextId, enqLog, callLog, com, handle>>

\* worker.join(timeout=2) returns because the two seconds have passed
MainJoinNoTimeout ==
    /\ FALSE
    /\ UNCHANGED wvars
MainJoinTimeout ==
    /\ mpc = "join"
    /\ ~AllStopped
    /\ mpc' = "done"
    /\ UNCHANGED <<task_queue, unfinished, shutdown_flag, wpc, task, dialogs,
                   hpc, nextId, enqLog, callLog, com, handle>>

MainStep ==
    \/ MainEsc
    \/ MainSetFlag
    \/ MainPutSentinel
    \/ MainJoinStopped
    \/ MainJoinTimeout

\* ------------------------------------------------------------------------
\* excel_ops.py: get_active_selection against the live host
\* ------------------------------------------------------------------------
MAX_RETRIES == 3
RETRY_DELAY_BASE == 3          \* tenths of a second

Sheets == {"Sheet1", "Sheet2"}
\* the cells of a sheet that the user selects: one column is enough to tell
\* one selection from another
Cells == (1..MaxRow) \X {1}
NoSel == <<0, 0>>
NoSheet == "None"
Failure == [app |-> "None", book |-> "None", sheet |-> NoSheet,
            selsheet |-> NoSheet, cell |-> NoSel]

Pow2(n) == IF n = 0 THEN 1 ELSE IF n = 1 THEN 2 ELSE IF n = 2 THEN 4 ELSE 8

\* a retry that waits the same time before every attempt
RetryDelayFixed(n) == RETRY_DELAY_BASE
\* delay = RETRY_DELAY_BASE * (2 ** attempt)
RetryDelay(n) == RETRY_DELAY_BASE * Pow2(n)

VARIABLES
    liveSheet,     \* host: name of app.api.ActiveSheet
    liveSel,       \* host: <<Row, Column>> of app.api.Selection, NoSel if None
    xwSel,         \* wrapper: sheet and cell that app.selection answers with
    xwActive,      \* wrapper: name of book.sheets.active
    apc,           \* position inside get_active_selection
    max_retries,   \* argument of the call
    attempt,       \* loop variable
    app,           \* how the attempt got its app: "hwnd", "active", "None"
    book,          \* local `book`: "byname", "active" (books.active), "None"
    sheet,         \* local `sheet`: name of the wrapper sheet object
    path,          \* branch taken by step 5 of the last attempt (history)
    waits,         \* the backoff delays of the call, in order (history)
    result,        \* the returned tuple
    last_error,    \* local `last_error`: the exception of the last failure
    failed         \* the lookups by live name ("book", "sheet") that failed
                   \* in the current attempt (history)

avars == <<liveSheet, liveSel, xwSel, xwActive, apc, max_retries, attempt,
           app, book, sheet, path, waits, result, last_error,
           failed>>

AInit ==
    /\ failed = {}
    /\ liveSheet = "Sheet1"
    /\ liveSel = <<1, 1>>
    /\ xwSel = [sheet |-> liveSheet, cell |-> liveSel]
    /\ xwActive = liveSheet
    /\ apc = "idle"
    /\ max_retries = MAX_RETRIES
    /\ attempt = 0
    /\ app = "None"
    /\ book = "None"
    /\ sheet = NoSheet
    /\ path = "none"
    /\ waits = <<>>
    /\ result = Failure
    /\ last_error = "None"

\* ---- the user and the wrapper's cache -----------------------------------

\* the user activates another sheet; the host's selection is then the one
\* remembered for that sheet
UserSwitchSheet ==
    /\ \E s \in Sheets \ {liveSheet} : liveSheet' = s
    /\ \E c \in Cells : liveSel' = c
    /\ UNCHANGED <<xwSel, xwActive, apc, max_retries, attempt, app, book,
                   sheet, path, waits, result, last_error, failed>>

\* the user selects a cell, or something that is not a range
UserSelect ==
    /\ \E c \in (Cells \cup {NoSel}) \ {liveSel} : liveSel' = c
    /\ UNCHANGED <<liveSheet, xwSel, xwActive, apc, max_retries, attempt, app,
                   book, sheet, path, waits, result, last_error, failed>>

\* the wrapper's cached objects catch up with the host
WrapperSync ==
    /\ liveSel # NoSel
    /\ xwSel' = [sheet |-> liveSheet, cell |-> liveSel]
    /\ xwActive' = liveSheet
    /\ <<xwSel', xwActive'>> # <<xwSel, xwActive>>
    /\ UNCHANGED <<liveSheet, liveSel, apc, max_retries, attempt, app, book,
                   sheet, path, waits, result, last_error, failed>>

\* ---- get_active_selection -----------------------------------------------

\* the call; `for attempt in range(max_retries)` with nothing to iterate
\* falls through to `return None, None, None, None`
AcqCall ==
    /\ apc \in {"idle", "done"}
    /\ \E m \in (-1)..MAX_RETRIES :
          /\ max_retries' = m
          /\ IF m <= 0
                THEN apc' = "done"
                ELSE apc' = "connect"
    /\ attempt' = 0
    /\ app' = "None"
    /\ book' = "None"
    /\ sheet' = NoSheet
    /\ path' = "none"
    /\ waits' = <<>>
    /\ result' = Failure
    /\ last_error' = "None"
    /\ failed' = {}
    /\ UNCHANGED <<liveSheet, liveSel, xwSel, xwActive>>

\* Step 1. What the attempt meets at the low-level interface:
\*   "ImportError"   win32com cannot be imported
\*   "ComError"      GetActiveObject raises
\*   "NotReady"      _wait_for_excel_ready times out
\*   "NoWorkbook"    excel_api.ActiveWorkbook is None
\*   "NoSheet"       excel_api.ActiveSheet is None
\*   "Ready"         none of these
Win32States == {"ImportError", "ComError", "NotReady", "NoWorkbook",
                "NoSheet", "Ready"}

\* the app of an attempt whose low-level interface is ready: the xlwings app
\* with the same Hwnd, else xw.apps.active (which may be None), else
\* ConnectionError("No xlwings app found.")
Step1App(hwndMatch, xwApps, activeNone) ==
    IF xwApps = 0 THEN "NoApps"
    ELSE IF hwndMatch THEN "hwnd"
    ELSE IF activeNone THEN "None"
    ELSE "active"

\* where the inner try of step 1 ends after `polls` readiness polls:
\*   "hwnd", "active"   app is set, on to step 2
\*   "recheck"          time.sleep(0.3) and the second poll
\*   "unavailable"      in a handler, the low-level interface cannot be used
\*   "notready"         in `except Exception`, with the ConnectionError
\*                      "Excel is not responding. Please try again."
\*   "detected"         in `except Exception`, with the ConnectionError of a
\*                      missing workbook, sheet or xlwings app
\*   "except"           past the inner try, `if app is None: raise`
Step1Try(win32, polls, hwndMatch, xwApps, activeNone) ==
    IF win32 \in {"ImportError", "ComError"} THEN "unavailable"
    ELSE IF win32 = "NotReady"
       THEN IF polls = 1 THEN "recheck" ELSE "notready"
    ELSE IF win32 \in {"NoWorkbook", "NoSheet"} THEN "detected"
    ELSE IF Step1App(hwndMatch, xwApps, activeNone) = "NoApps" THEN "detected"
    ELSE IF Step1App(hwndMatch, xwApps, activeNone) = "None" THEN "except"
    ELSE Step1App(hwndMatch, xwApps, activeNone)

\* the step after the inner try, from where the try ended
Step1Next(o) ==
    /\ apc' = IF o \in {"hwnd", "active"} THEN "refresh" ELSE o
    /\ app' = IF o \in {"hwnd", "active"} THEN o
              ELSE IF o \in {"detected", "except"} THEN "None"
              ELSE app
    /\ last_error' = IF o = "except" THEN "NoApp" ELSE last_error

\* the ConnectionError of step 1: "No Excel running. Please open Excel
\* first." when xlwings has no app, "No active Excel application found."
\* when xw.apps.active is None
Step1Error(xwApps) == IF xwApps = 0 THEN "NoHost" ELSE "NoApp"

\* the handlers of the inner try
HandlerPcs == {"unavailable", "notready", "detected"}

\* import, GetActiveObject, the first readiness poll and, if the host is
\* ready, the checks and the match by Hwnd
AcqConnect ==
    /\ apc = "connect"
    /\ \E win32 \in Win32States, hwndMatch, activeNone \in BOOLEAN,
          xwApps \in {0, 1} :
          Step1Next(Step1Try(win32, 1, hwndMatch, xwApps, activeNone))
    /\ UNCHANGED <<liveSheet, liveSel, xwSel, xwActive, max_retries, attempt,
                   book, sheet, path, waits, result, failed>>

\* time.sleep(0.3), the second readiness poll and, if the host is ready
\* now, the checks and the match by Hwnd
AcqRecheck ==
    /\ apc = "recheck"
    /\ \E win32 \in Win32States \ {"ImportError", "ComError"},
          hwndMatch, activeNone \in BOOLEAN, xwApps \in {0, 1} :
          Step1Next(Step1Try(win32, 2, hwndMatch, xwApps, activeNone))
    /\ UNCHANGED <<liveSheet, liveSel, xwSel, xwActive, max_retries, attempt,
                   book, sheet, path, waits, result, failed>>

\* `except ImportError` and `except Exception as e`, whatever e is: raise
\* when xlwings has no app, else app = xw.apps.active, and `if app is None:
\* raise`
AcqFallback ==
    /\ apc \in HandlerPcs
    /\ \E xwApps \in {0, 1}, activeNone \in BOOLEAN :
          IF xwApps = 0 \/ activeNone
             THEN /\ app' = "None"
                  /\ apc' = "except"
                  /\ last_error' = Step1Error(xwApps)
             ELSE /\ app' = "active"
                  /\ apc' = "refresh"
                  /\ UNCHANGED last_error
    /\ UNCHANGED <<liveSheet, liveSel, xwSel, xwActive, max_retries, attempt,
                   book, sheet, path, waits, result, failed>>

\* Step 2: _force_excel_refresh (never raises), then `app.api.Version`;
\* Step 3: the workbook by name, else books.active, else ConnectionError
\*   versionRaises   "Excel busy or in Edit Mode. Press Esc first."
\*   bookNone        "No active workbook."
\*   activeRaises    the lookup by name raised and app.books.active, called
\*                   inside the handler, raised as well
\* step 3 without the two `if book is None: raise`
Step3ErrorNoCheck(versionRaises, activeRaises, bookNone) ==
    IF versionRaises THEN "Busy"
    ELSE IF activeRaises THEN "ComError"
    ELSE "None"
\* the error of steps 2 and 3
Step3Error(versionRaises, activeRaises, bookNone) ==
    IF versionRaises THEN "Busy"
    ELSE IF activeRaises THEN "ComError"
    ELSE IF bookNone THEN "NoBook"
    ELSE "None"

\* what step 3 assigns to the local `book`: app.books[book_name] when the
\* live read and the lookup by name succeed, else app.books.active, which
\* is None when the wrapper has no active book
Step3Book(lookupFails, bookNone) ==
    IF ~lookupFails THEN "byname"
    ELSE IF bookNone THEN "None"
    ELSE "active"

AcqRefreshBook ==
    /\ apc = "refresh"
    /\ \E versionRaises, lookupFails, activeRaises, bookNone \in BOOLEAN :
          LET e == Step3Error(versionRaises, lookupFails /\ activeRaises,
                              lookupFails /\ bookNone)
          IN /\ failed' = IF lookupFails /\ ~versionRaises THEN {"book"} ELSE {}
             /\ book' = IF e \in {"Busy", "ComError"}
                           THEN book
                           ELSE Step3Book(lookupFails, bookNone)
             /\ IF e # "None"
                   THEN apc' = "except" /\ last_error' = e
                   ELSE apc' = "sheet" /\ UNCHANGED last_error
    /\ UNCHANGED <<liveSheet, liveSel, xwSel, xwActive, max_retries, attempt,
                   app, sheet, path, waits, result>>

\* step 4 with `sheet = book.sheets.active` and no lookup by name
Step4SheetActive(apiRaises, lookupFails, activeNone) ==
    IF activeNone THEN NoSheet ELSE xwActive
\* Step 4: the sheet by the live name; if the live read or the lookup by
\* name fails, book.sheets.active
Step4Sheet(apiRaises, lookupFails, activeNone) ==
    IF ~apiRaises /\ ~lookupFails THEN liveSheet
    ELSE IF activeNone THEN NoSheet
    ELSE xwActive

AcqSheet ==
    /\ apc = "sheet"
    /\ \E apiRaises, lookupFails, activeNone \in BOOLEAN :
          LET s == Step4Sheet(apiRaises, lookupFails, activeNone) IN
             /\ sheet' = s
             /\ failed' = IF apiRaises \/ lookupFails
                             THEN failed \cup {"sheet"}
                             ELSE failed
             /\ IF s = NoSheet
                   THEN apc' = "except" /\ last_error' = "NoSheet"
                   ELSE apc' = "selection" /\ UNCHANGED last_error
    /\ UNCHANGED <<liveSheet, liveSel, xwSel, xwActive, max_retries, attempt,
                   app, book, path, waits, result>>

\* step 5 with a raise where the wrapper's selection cannot be read
Step5PathNoFallback(selRaises, checkRaises, apiRaises) ==
    IF selRaises THEN "failed"
    ELSE IF checkRaises THEN "skipped"
    ELSE IF xwSel.sheet = liveSheet THEN "verified"
    ELSE IF apiRaises THEN "abandoned"
    ELSE IF liveSel = NoSel THEN "uncorrected"
    ELSE "corrected"
\* Step 5: the branch taken, from what the reads do
\*   selRaises     app.selection or its address, row or column raises
\*   checkRaises   selection.sheet.name or app.api.ActiveSheet.Name raises
\*   apiRaises     app.api.Selection, its Row or Column, or sheet.range raises
Step5Path(selRaises, checkRaises, apiRaises) ==
    IF selRaises
       THEN IF liveSel = NoSel \/ apiRaises THEN "failed" ELSE "fallback"
    ELSE IF checkRaises THEN "skipped"
    ELSE IF xwSel.sheet = liveSheet THEN "verified"
    ELSE IF apiRaises THEN "abandoned"
    ELSE IF liveSel = NoSel THEN "uncorrected"
    ELSE "corrected"

\* the api_e of "Cannot read selection: {e}. API fallback also failed:
\* {api_e}": the read of app.api.Selection raised, or it gave None and the
\* code raised "No selection in Excel."
Step5Error(apiRaises) ==
    IF apiRaises THEN "SelectionUnreadable" ELSE "NoSelection"

\* the selection the branch leaves in `selection`
Step5Selection(p) ==
    IF p \in {"fallback", "corrected"}
       THEN [sheet |-> sheet, cell |-> liveSel]
       ELSE xwSel

AcqSelection ==
    /\ apc = "selection"
    /\ \E selRaises, checkRaises, apiRaises \in BOOLEAN :
          LET p == Step5Path(selRaises, checkRaises, apiRaises)
              sel == Step5Selection(p)
          IN /\ path' = p
             /\ IF p = "failed"
                   THEN /\ apc' = "except"
                        /\ last_error' = Step5Error(apiRaises)
                        /\ UNCHANGED result
                   ELSE /\ apc' = "done"
                        /\ result' = [app |-> app, book |-> book,
                                      sheet |-> sheet,
                                      selsheet |-> sel.sheet,
                                      cell |-> sel.cell]
                        /\ UNCHANGED last_error
    /\ UNCHANGED <<liveSheet, liveSel, xwSel, xwActive, max_retries, attempt,
                   app, book, sheet, waits, failed>>

\* a handler that sleeps after every failed attempt, the last one too
AcqExceptSleepAlways ==
    /\ apc = "except"
    /\ waits' = Append(waits, RetryDelay(attempt))
    /\ IF attempt < max_retries - 1
          THEN /\ apc' = "connect"
               /\ UNCHANGED result
          ELSE /\ apc' = "done"
               /\ result' = Failure
    /\ attempt' = attempt + 1
    /\ UNCHANGED <<liveSheet, liveSel, xwSel, xwActive, max_retries, app,
                   book, sheet, path, last_error, failed>>
\* `except Exception as e`: whatever was raised, a ConnectionError
\* included, is kept in last_error (written here at the raise); sleep and go
\* round again, or give up after the last attempt and return the four None
AcqExcept ==
    /\ apc = "except"
    /\ IF attempt < max_retries - 1
          THEN /\ waits' = Append(waits, RetryDelay(attempt))
               /\ apc' = "connect"
               /\ UNCHANGED result
          ELSE /\ apc' = "done"
               /\ result' = Failure
               /\ UNCHANGED waits
    /\ attempt' = attempt + 1
    /\ UNCHANGED <<liveSheet, liveSel, xwSel, xwActive, max_retries, app,
                   book, sheet, path, last_error, failed>>


\* ------------------------------------------------------------------------
\* excel_ops.py: get_context on a sheet
\* ------------------------------------------------------------------------
\* A text is a sequence of characters; a cell value is None, a number or a
\* text; the read of a cell may raise instead.
NoneVal == [k |-> "none", s |-> <<>>]
NumVal == [k |-> "num", s |-> <<"1">>]
Str(s) == [k |-> "str", s |-> s]
Throws == [k |-> "throws", s |-> <<>>]

\* blank text, a label, a label typed with a leading blank, a formatted number
SampleTexts == {<<" ">>, <<"a">>, <<" ", "b">>, <<"$", "1">>}
CellStates == {NoneVal, NumVal, Throws} \cup {Str(s) : s \in SampleTexts}

\* str.strip()
RECURSIVE LStrip(_)
LStrip(s) == IF s # <<>> /\ Head(s) = " " THEN LStrip(Tail(s)) ELSE s
RECURSIVE RStrip(_)
RStrip(s) ==
    IF s # <<>> /\ s[Len(s)] = " "
       THEN RStrip(SubSeq(s, 1, Len(s) - 1))
       ELSE s
Strip(s) == RStrip(LStrip(s))

\* str.replace(ch, "")
Replace(s, ch) == SelectSeq(s, LAMBDA x : x # ch)

\* float(s) does not raise ValueError: digits, blanks around them allowed
Digits == {"0", "1", "2", "3", "4", "5", "6", "7", "8", "9"}
FloatParses(s) ==
    LET t == Strip(s) IN
       t # <<>> /\ \A i \in 1..Len(t) : t[i] \in Digits

\* a label test without the number check
IsLikelyLabelAnyText(value) == value.k = "str" /\ Strip(value.s) # <<>>
\* _is_likely_label
IsLikelyLabel(value) ==
    IF value.k = "none" THEN FALSE
    ELSE IF value.k = "num" THEN FALSE
    ELSE LET s_val == Strip(value.s) IN
            IF s_val = <<>> THEN FALSE
            ELSE ~FloatParses(Replace(Replace(Replace(s_val, ","), "$"), "%"))

\* truth value of a cell value
Truthy(value) == value.k = "num" \/ (value.k = "str" /\ value.s # <<>>)

\* _safe_read_cell: the value, or None when the read raises
SafeReadCell(g, row, col) ==
    IF g[<<row, col>>] = Throws THEN NoneVal ELSE g[<<row, col>>]

\* the defaults, one-word texts
UNKNOWN == <<"UNKNOWN">>
UnknownPeriod == <<"Unknown Period">>
UnknownLineItem == <<"Unknown Line Item">>
UnknownItem == <<"Unknown Item">>
UnknownAddress == <<0, 0>>          \* "?"

RECURSIVE ScanFrom1(_, _, _, _, _)
RECURSIVE Scan(_, _, _, _, _)
\* a scan that runs from index 1 towards the selection
ScanFrom1(g, row, col, drow, dcol) ==
    IF row < 1 \/ col < 1 THEN <<>>
    ELSE LET far == ScanFrom1(g, row - drow, col - dcol, drow, dcol)
             val == SafeReadCell(g, row, col)
         IN IF far # <<>> THEN far
            ELSE IF IsLikelyLabel(val) THEN Strip(val.s) ELSE <<>>
\* `for c in range(col_idx - 1, 0, -1)` and `for r in range(row_idx - 1, 0,
\* -1)`: from the cell at <<row, col>> one step of <<drow, dcol>> at a time
\* towards index 1, the stripped text of the first label-like value, or the
\* empty text for a scan that found none
Scan(g, row, col, drow, dcol) ==
    IF row < 1 \/ col < 1 THEN <<>>
    ELSE LET val == SafeReadCell(g, row, col) IN
            IF IsLikelyLabel(val) THEN Strip(val.s)
            ELSE Scan(g, row - drow, col - dcol, drow, dcol)

RECURSIVE ScanReadsAll(_, _, _, _, _)
RECURSIVE ScanReads(_, _, _, _, _)
\* a loop without the `break`
ScanReadsAll(g, row, col, drow, dcol) ==
    IF row < 1 \/ col < 1 THEN <<>>
    ELSE <<<<row, col>>>> \o ScanReadsAll(g, row - drow, col - dcol, drow, dcol)
\* the cells the loop of a scan passes to _safe_read_cell, in order: the
\* loop ends with the `break` at the first label-like value or at index 1
ScanReads(g, row, col, drow, dcol) ==
    IF row < 1 \/ col < 1 THEN <<>>
    ELSE IF IsLikelyLabel(SafeReadCell(g, row, col)) THEN <<<<row, col>>>>
    ELSE <<<<row, col>>>> \o ScanReads(g, row - drow, col - dcol, drow, dcol)

\* the reads of one call of get_context: the scan to the left, the scan
\* upwards, and the read of A1; none when the selection cannot be read
NoReads == [left |-> <<>>, up |-> <<>>, a1 |-> <<>>]
ContextReads(g, sel, fails) ==
    IF fails THEN NoReads
    ELSE [left |-> ScanReads(g, sel[1], sel[2] - 1, 0, 1),
          up |-> ScanReads(g, sel[1] - 1, sel[2], 1, 0),
          a1 |-> <<<<1, 1>>>>]

\* the cells get_context reads for a selection at <<row, col>>
ContextCells(row, col) ==
    {<<row, c>> : c \in 1..(col - 1)} \cup {<<r, col>> : r \in 1..(row - 1)}
       \cup {<<1, 1>>}

\* get_context for a selection at sel = <<row, col>>; `fails` when reading
\* selection.sheet, .row, .column or .address raises
GetContext(g, sel, fails) ==
    IF fails
       THEN [ticker |-> UNKNOWN, time_period |-> UnknownPeriod,
             line_item |-> UnknownItem, cell_address |-> UnknownAddress]
       ELSE LET row_idx == sel[1]
                col_idx == sel[2]
                found_item == Scan(g, row_idx, col_idx - 1, 0, 1)
                found_period == Scan(g, row_idx - 1, col_idx, 1, 0)
                ticker_val == SafeReadCell(g, 1, 1)
            IN [ticker |-> IF Truthy(ticker_val) /\ IsLikelyLabel(ticker_val)
                              THEN Strip(ticker_val.s)
                              ELSE UNKNOWN,
                time_period |-> IF found_period = <<>>
                                   THEN UnknownPeriod
                                   ELSE found_period,
                line_item |-> IF found_item = <<>>
                                 THEN UnknownLineItem
                                 ELSE found_item,
                cell_address |-> sel]

CtxCells == (1..MaxCtxRow) \X (1..MaxCtxCol)
NoContext == [ticker |-> <<>>, time_period |-> <<>>, line_item |-> <<>>,
              cell_address |-> UnknownAddress]

VARIABLES
    cpc,           \* "idle", "called", "done"
    csel,          \* <<row, column>> of the selection passed to get_context
    cfails,        \* reading the selection's own attributes raises
    grid,          \* the cells the call can read: value, or Throws
    context,       \* the returned dict
    reads          \* the cells the call has read, in order (history)

cvars == <<cpc, csel, cfails, grid, context, reads>>

CInit ==
    /\ cpc = "idle"
    /\ csel = <<1, 1>>
    /\ cfails = FALSE
    /\ grid = [c \in ContextCells(1, 1) |-> NoneVal]
    /\ context = NoContext
    /\ reads = NoReads

\* the worker passes a selection; the sheet holds whatever it holds
CtxCall ==
    /\ cpc = "idle"
    /\ \E sel \in CtxCells :
          /\ csel' = sel
          /\ \E g \in [ContextCells(sel[1], sel[2]) -> CellStates] : grid' = g
    /\ \E f \in BOOLEAN : cfails' = f
    /\ cpc' = "called"
    /\ UNCHANGED <<context, reads>>

CtxExtract ==
    /\ cpc = "called"
    /\ context' = GetContext(grid, csel, cfails)
    /\ reads' = ContextReads(grid, csel, cfails)
    /\ cpc' = "done"
    /\ UNCHANGED <<csel, cfails, grid>>

\* the caller has used the dict; the next request starts from scratch
CtxReturn ==
    /\ cpc = "done"
    /\ cpc' = "idle"
    /\ csel' = <<1, 1>>
    /\ cfails' = FALSE
    /\ grid' = [c \in ContextCells(1, 1) |-> NoneVal]
    /\ context' = NoContext
    /\ reads' = NoReads

\* ------------------------------------------------------------------------
\* excel_ops.py: add_note_to_cell on a sheet
\* ------------------------------------------------------------------------
\* A note is the sequence of the texts it holds, <<>> for a cell without
\* note.  The host is Excel: ClearComments acts on every cell of the range
\* it is called on, AddComment refuses a range of several cells and a cell
\* that has a note already.  The sheet is one column of cells.
NoteCells == (1..MaxNoteRow) \X {1}
NoteTexts == {"A", "B"}
NoNote == <<>>

\* the ranges a selection can be: top-left and bottom-right corner
Selections ==
    {r \in [tl : NoteCells, br : NoteCells] :
        r.tl[1] <= r.br[1] /\ r.tl[2] <= r.br[2]}
RangeCells(r) ==
    {c \in NoteCells : /\ r.tl[1] <= c[1] /\ c[1] <= r.br[1]
                       /\ r.tl[2] <= c[2] /\ c[2] <= r.br[2]}

\* the range cell_api stands for after the narrowing: selection[0, 0] when
\* selection.count is read and is above 1, the selection itself otherwise,
\* also when reading the count or taking the first cell raises
CellApi(sel, narrowRaises) ==
    IF ~narrowRaises /\ Cardinality(RangeCells(sel)) > 1
       THEN [tl |-> sel.tl, br |-> sel.tl]
       ELSE sel

\* cell_api.ClearComments()
ClearComments(ns, target) ==
    [c \in NoteCells |-> IF c \in RangeCells(target) THEN NoNote ELSE ns[c]]

\* cell_api.Comment.Delete(): the note of the first cell of the range
CommentDelete(ns, target) == [ns EXCEPT ![target.tl] = NoNote]

\* a host that adds the text to the note a cell has already
AddCommentAppend(ns, target, text) ==
    [ok |-> target.tl = target.br,
     notes |-> [ns EXCEPT ![target.tl] = Append(ns[target.tl], text)]]
\* cell_api.AddComment(note_text): whether the host accepts the call, and
\* the notes after it
AddComment(ns, target, text) ==
    [ok |-> target.tl = target.br /\ ns[target.tl] = NoNote,
     notes |-> [ns EXCEPT ![target.tl] = <<text>>]]

VARIABLES
    notes,         \* host: the note of each cell
    npc,           \* position inside add_note_to_cell
    selection,     \* argument: the selected range
    note_text,     \* argument
    note_retries,  \* argument max_retries
    nattempt,      \* loop variable
    cell_api,      \* local: the range the clear and the write act on
    ret,           \* returned value: "True", "False", "None" before return
    nwaits,        \* the backoff sleeps of the call, in order (history)
    before,        \* note of the top-left cell when the call began (history)
    ncalls         \* the host calls of the current attempt and whether each
                   \* returned, in order (history)

nvars == <<notes, npc, selection, note_text, note_retries, nattempt,
           cell_api, ret, nwaits, before, ncalls>>

NInit ==
    /\ notes = [c \in NoteCells |-> NoNote]
    /\ npc = "idle"
    /\ selection = [tl |-> <<1, 1>>, br |-> <<1, 1>>]
    /\ note_text = "A"
    /\ note_retries = MAX_RETRIES
    /\ nattempt = 0
    /\ cell_api = selection
    /\ ret = "None"
    /\ nwaits = <<>>
    /\ before = NoNote
    /\ ncalls = <<>>

\* the call, with a selection that is a range; with nothing to iterate the
\* loop falls through to `return False`
NoteCall ==
    /\ npc \in {"idle", "done"}
    /\ \E sel \in Selections :
          /\ selection' = sel
          /\ cell_api' = sel
          /\ before' = notes[sel.tl]
    /\ \E t \in NoteTexts : note_text' = t
    /\ \E m \in (-1)..MAX_RETRIES :
          /\ note_retries' = m
          /\ IF m <= 0
                THEN npc' = "done" /\ ret' = "False"
                ELSE npc' = "narrow" /\ ret' = "None"
    /\ nattempt' = 0
    /\ nwaits' = <<>>
    /\ ncalls' = <<>>
    /\ UNCHANGED notes

\* `cell_api = selection.api`, then the narrowing to the first cell inside
\* its own try
NoteNarrow ==
    /\ npc = "narrow"
    /\ \E apiRaises, narrowRaises \in BOOLEAN :
          IF apiRaises
             THEN npc' = "except" /\ UNCHANGED cell_api
             ELSE npc' = "clear" /\ cell_api' = CellApi(selection, narrowRaises)
    /\ ncalls' = <<>>
    /\ UNCHANGED <<notes, selection, note_text, note_retries, nattempt, ret,
                   nwaits, before>>

\* a clear whose inner handler lets the second failure through
ClearStepUnguarded(ns, target, clearRaises, commentRaises) ==
    IF ~clearRaises
       THEN [notes |-> ClearComments(ns, target),
             calls |-> <<[call |-> "ClearComments", ok |-> TRUE]>>,
             raised |-> FALSE]
    ELSE IF commentRaises
       THEN [notes |-> ns,
             calls |-> <<[call |-> "ClearComments", ok |-> FALSE],
                         [call |-> "Comment", ok |-> FALSE]>>,
             raised |-> TRUE]
    ELSE IF ns[target.tl] # NoNote
       THEN [notes |-> CommentDelete(ns, target),
             calls |-> <<[call |-> "ClearComments", ok |-> FALSE],
                         [call |-> "Comment", ok |-> TRUE],
                         [call |-> "Comment.Delete", ok |-> TRUE]>>,
             raised |-> FALSE]
    ELSE [notes |-> ns,
          calls |-> <<[call |-> "ClearComments", ok |-> FALSE],
                      [call |-> "Comment", ok |-> TRUE]>>,
          raised |-> FALSE]
\* the clear: ClearComments, and when it raises, the read of Comment and,
\* if the range answers with a note, Comment.Delete; whatever these two
\* raise is swallowed
\*   clearRaises     cell_api.ClearComments() raises
\*   commentRaises   cell_api.Comment or Comment.Delete() raises
ClearStep(ns, target, clearRaises, commentRaises) ==
    IF ~clearRaises
       THEN [notes |-> ClearComments(ns, target),
             calls |-> <<[call |-> "ClearComments", ok |-> TRUE]>>,
             raised |-> FALSE]
    ELSE IF commentRaises
       THEN [notes |-> ns,
             calls |-> <<[call |-> "ClearComments", ok |-> FALSE],
                         [call |-> "Comment", ok |-> FALSE]>>,
             raised |-> FALSE]
    ELSE IF ns[target.tl] # NoNote
       THEN [notes |-> CommentDelete(ns, target),
             calls |-> <<[call |-> "ClearComments", ok |-> FALSE],
                         [call |-> "Comment", ok |-> TRUE],
                         [call |-> "Comment.Delete", ok |-> TRUE]>>,
             raised |-> FALSE]
    ELSE [notes |-> ns,
          calls |-> <<[call |-> "ClearComments", ok |-> FALSE],
                      [call |-> "Comment", ok |-> TRUE]>>,
          raised |-> FALSE]

NoteClear ==
    /\ npc = "clear"
    /\ \E clearRaises, commentRaises \in BOOLEAN :
          LET r == ClearStep(notes, cell_api, clearRaises, commentRaises) IN
             /\ notes' = r.notes
             /\ ncalls' = ncalls \o r.calls
             /\ npc' = IF r.raised THEN "except" ELSE "write"
    /\ UNCHANGED <<selection, note_text, note_retries, nattempt, cell_api,
                   ret, nwaits, before>>

\* a host whose AddComment leaves the note in place when it raises
NoteWriteDirty ==
    /\ npc = "write"
    /\ LET r == AddComment(notes, cell_api, note_text) IN
          \E hostRaises \in BOOLEAN :
             /\ ncalls' = Append(ncalls, [call |-> "AddComment",
                                          ok |-> r.ok /\ ~hostRaises])
             /\ notes' = r.notes
             /\ IF r.ok /\ ~hostRaises
                   THEN npc' = "done" /\ ret' = "True"
                   ELSE npc' = "except" /\ UNCHANGED ret
    /\ UNCHANGED <<selection, note_text, note_retries, nattempt, cell_api,
                   nwaits, before>>
\* AddComment, then `return True`
NoteWrite ==
    /\ npc = "write"
    /\ LET r == AddComment(notes, cell_api, note_text) IN
          \E hostRaises \in BOOLEAN :
             /\ ncalls' = Append(ncalls, [call |-> "AddComment",
                                          ok |-> r.ok /\ ~hostRaises])
             /\ IF r.ok /\ ~hostRaises
                   THEN /\ notes' = r.notes
                        /\ npc' = "done"
                        /\ ret' = "True"
                   ELSE /\ npc' = "except"
                        /\ UNCHANGED <<notes, ret>>
    /\ UNCHANGED <<selection, note_text, note_retries, nattempt, cell_api,
                   nwaits, before>>

\* a handler that gives up at the first exception
NoteExceptGiveUp ==
    /\ npc = "except"
    /\ npc' = "done"
    /\ ret' = "False"
    /\ nattempt' = nattempt + 1
    /\ UNCHANGED <<notes, selection, note_text, note_retries, cell_api,
                   nwaits, before, ncalls>>
\* `except Exception as e`: sleep and go round again, or fall out of the
\* loop after the last attempt and return False
NoteExcept ==
    /\ npc = "except"
    /\ IF nattempt < note_retries - 1
          THEN /\ nwaits' = Append(nwaits, RetryDelay(nattempt))
               /\ npc' = "narrow"
               /\ UNCHANGED ret
          ELSE /\ npc' = "done"
               /\ ret' = "False"
               /\ UNCHANGED nwaits
    /\ nattempt' = nattempt + 1
    /\ UNCHANGED <<notes, selection, note_text, note_retries, cell_api,
                   before, ncalls>>

\* ------------------------------------------------------------------------
\* data_fetcher.py: fetch_comments
\* ------------------------------------------------------------------------
\* str.lower(), on the characters and the one-word texts of the samples
LowerChar(c) ==
    CASE c = "E" -> "e"
      [] c = "P" -> "p"
      [] c = "S" -> "s"
      [] c = "R" -> "r"
      [] c = "UNKNOWN" -> "unknown"
      [] c = "Unknown Line Item" -> "unknown line item"
      [] c = "Unknown Item" -> "unknown item"
      [] c = "General" -> "general"
      [] OTHER -> c
Lower(s) == [i \in 1..Len(s) |-> LowerChar(s[i])]

\* the keys of mock_data
KeyRevenue == <<"r", "e", "v", "e", "n", "u", "e">>
KeyNetIncome == <<"n", "e", "t", " ", "i", "n", "c", "o", "m", "e">>
KeyNii == <<"n", "e", "t", " ", "i", "n", "t", "e", "r", "e", "s", "t", " ",
            "i", "n", "c", "o", "m", "e">>
KeyEps == <<"e", "p", "s">>
KeyOpex == <<"o", "p", "e", "r", "a", "t", "i", "n", "g", " ",
             "e", "x", "p", "e", "n", "s", "e", "s">>
MockKeys == {KeyRevenue, KeyNetIncome, KeyNii, KeyEps, KeyOpex}

\* mock_data[key]: the comments, with ticker and period where the f-strings
\* put them
MockData(key, ticker, period) ==
    CASE key = KeyRevenue ->
            << ticker \o <<" reported strong revenue growth in ">> \o period
                  \o <<" driven by demand.">>,
               <<"Segment A contributed 60% of total sales.">> >>
      [] key = KeyNetIncome ->
            << <<"Net income was impacted by one-time tax charges.">>,
               <<"Operational efficiency improved margins quarter-over-quarter.">> >>
      [] key = KeyNii ->
            << <<"Net interest income (NII) was a key driver for ">> \o ticker
                  \o <<" in ">> \o period \o <<".">>,
               <<"Higher rates supported NII expansion, offset by deposit costs.">>,
               <<"Management expects NII to stabilize in coming quarters.">> >>
      [] key = KeyEps ->
            << <<"Earnings per share for ">> \o period
                  \o <<" exceeded analyst expectations.">>,
               <<"Share buybacks contributed to EPS growth.">> >>
      [] OTHER ->
            << <<"Operating expenses were well-controlled despite inflation.">>,
               <<"Technology investments increased as planned.">> >>

\* the generic fallback for a line item that is no key
GenericComments(ticker, period, line_item) ==
    LET company == IF ticker # <<"UNKNOWN">> THEN ticker
                                              ELSE <<"The company">>
    IN << <<"Analyst Note: ">> \o line_item \o <<" for ">> \o company
             \o <<" in ">> \o period \o <<" aligns with consensus.">>,
          <<"Management discussed ">> \o line_item \o <<" trends during the ">>
             \o period \o <<" earnings call.">>,
          <<"See 10-Q ">> \o period \o <<" for detailed breakdown of ">>
             \o line_item \o <<".">> >>

Comments(ticker, period, line_item) ==
    LET line_item_lower == Lower(line_item) IN
       IF line_item_lower \in MockKeys
          THEN MockData(line_item_lower, ticker, period)
          ELSE GenericComments(ticker, period, line_item)

\* `for comment in comments: formatted += ...`
RECURSIVE Bullets(_)
Bullets(cs) ==
    IF cs = <<>> THEN <<>>
    ELSE <<"* ">> \o Head(cs) \o <<"\n">> \o Bullets(Tail(cs))

\* the four header lines
Header(ticker, period, line_item) ==
    <<"--- AXE ANNOTATE ---\n", "Ticker: ">> \o ticker \o <<" | Period: ">>
       \o period \o <<"\n", "Item: ">> \o line_item
       \o <<"\n", "Source: Automated Insight\n\n">>

\* a text made of the comments alone
FetchCommentsNoHeader(ticker, period, line_item) ==
    Bullets(Comments(ticker, period, line_item))
\* fetch_comments
FetchComments(ticker, period, line_item) ==
    Header(ticker, period, line_item)
       \o Bullets(Comments(ticker, period, line_item))

\* what the worker passes: the fields of a context, or its own defaults
\* "UNKNOWN", "Current" and "General"
TickerSamples == {UNKNOWN, <<"a">>, <<"b">>}
PeriodSamples == {UnknownPeriod, <<"Current">>, <<"a">>}
LineItemSamples ==
    MockKeys \cup {UnknownLineItem, UnknownItem, <<"General">>,
                   <<"E", "P", "S">>, <<"R", "e", "v", "e", "n", "u", "e">>,
                   <<"a">>, <<"b">>}

VARIABLES
    fpc,           \* "idle", "called", "done"
    ticker,        \* argument
    period,        \* argument
    line_item,     \* argument
    formatted      \* the returned text

fvars == <<fpc, ticker, period, line_item, formatted>>

FInit ==
    /\ fpc = "idle"
    /\ ticker = UNKNOWN
    /\ period = UnknownPeriod
    /\ line_item = UnknownLineItem
    /\ formatted = <<>>

FetchCall ==
    /\ fpc = "idle"
    /\ \E t \in TickerSamples : ticker' = t
    /\ \E p \in PeriodSamples : period' = p
    /\ \E l \in LineItemSamples : line_item' = l
    /\ fpc' = "called"
    /\ UNCHANGED formatted

FetchRun ==
    /\ fpc = "called"
    /\ formatted' = FetchComments(ticker, period, line_item)
    /\ fpc' = "done"
    /\ UNCHANGED <<ticker, period, line_item>>

\* the caller has the text; the next request starts from scratch
FetchReturn ==
    /\ fpc = "done"
    /\ fpc' = "idle"
    /\ ticker' = UNKNOWN
    /\ period' = UnknownPeriod
    /\ line_item' = UnknownLineItem
    /\ formatted' = <<>>

\* ------------------------------------------------------------------------
\* main.py: the references of one request, from acquire to the note
\* ------------------------------------------------------------------------
\* what a selection refers to: a cell of a sheet
Ranges == [sheet : Sheets, cell : Cells]
NoRange == [sheet |-> NoSheet, cell |-> NoSel]

\* an attach that asks the host for its selection again
AttachTargetLive(sel, live) == live
\* the cell add_note_to_cell(selection, comments) acts on: `cell_api =
\* selection.api`, the range object the worker got from acquire
AttachTarget(sel, live) == sel

VARIABLES
    rpc,           \* position of the worker in the request
    hostSel,       \* host: the cell the user has selected now
    wsel,          \* worker: local `selection` of worker_loop
    noteCell       \* the cell that received the note of the request

rvars == <<rpc, hostSel, wsel, noteCell>>

RInit ==
    /\ rpc = "idle"
    /\ hostSel = [sheet |-> "Sheet1", cell |-> <<1, 1>>]
    /\ wsel = NoRange
    /\ noteCell = NoRange

\* the user selects another cell or activates another sheet, at any moment
ReqUserSelect ==
    /\ \E s \in Ranges \ {hostSel} : hostSel' = s
    /\ UNCHANGED <<rpc, wsel, noteCell>>

\* a request is dequeued
ReqDequeue ==
    /\ rpc = "idle"
    /\ rpc' = "acquire"
    /\ noteCell' = NoRange
    /\ UNCHANGED <<hostSel, wsel>>

\* `app, book, sheet, selection = excel_ops.get_active_selection()`: the
\* selection of the host, a selection the wrapper had cached, or None
ReqAcquire ==
    /\ rpc = "acquire"
    /\ \/ /\ \E s \in Ranges : wsel' = s
          /\ rpc' = "extract"
       \/ /\ wsel' = NoRange
          /\ rpc' = "idle"
    /\ UNCHANGED <<hostSel, noteCell>>

\* excel_ops.get_context(selection)
ReqExtract ==
    /\ rpc = "extract"
    /\ \E raised \in BOOLEAN : rpc' = IF raised THEN "idle" ELSE "fetch"
    /\ UNCHANGED <<hostSel, wsel, noteCell>>

\* data_fetcher.fetch_comments(...) and its half second of sleep
ReqFetch ==
    /\ rpc = "fetch"
    /\ rpc' = "attach"
    /\ UNCHANGED <<hostSel, wsel, noteCell>>

\* excel_ops.add_note_to_cell(selection, comments): the note is written or
\* the call fails
ReqAttach ==
    /\ rpc = "attach"
    /\ \E success \in BOOLEAN :
          noteCell' = IF success THEN AttachTarget(wsel, hostSel) ELSE NoRange
    /\ rpc' = "done"
    /\ UNCHANGED <<hostSel, wsel>>

\* cooldown and task_done; the locals stay as they are
ReqEnd ==
    /\ rpc = "done"
    /\ rpc' = "idle"
    /\ UNCHANGED <<hostSel, wsel, noteCell>>

\* the variables a part of the program leaves alone
notW == <<avars, cvars, nvars, fvars, rvars>>
notA == <<wvars, cvars, nvars, fvars, rvars>>
notC == <<wvars, avars, nvars, fvars, rvars>>
notN == <<wvars, avars, cvars, fvars, rvars>>
notF == <<wvars, avars, cvars, nvars, rvars>>
notR == <<wvars, avars, cvars, nvars, fvars>>

vars == <<wvars, avars, cvars, nvars, fvars, rvars>>

Init == WInit /\ AInit /\ CInit /\ NInit /\ FInit /\ RInit

\* the threads of main.py leave the host and the acquirer alone
WorkerRun(w) == WorkerStep(w) /\ UNCHANGED notW

MainRun == MainStep /\ UNCHANGED notW

Next ==
    \/ HotkeyV1 /\ UNCHANGED notW
    \/ HotkeyV2 /\ UNCHANGED notW
    \/ UiSubmit /\ UNCHANGED notW
    \/ UiCancel /\ UNCHANGED notW
    \/ \E h \in HealthThreads : HotkeyHealth(h) /\ UNCHANGED notW
    \/ \E h \in HealthThreads : HealthStep(h) /\ UNCHANGED notW
    \/ \E w \in Workers : WorkerStart(w) /\ UNCHANGED notW
    \/ \E w \in Workers : WorkerTest(w) /\ UNCHANGED notW
    \/ \E w \in Workers : WorkerLoop(w) /\ UNCHANGED notW
    \/ \E w \in Workers : WorkerPump(w) /\ UNCHANGED notW
    \/ \E w \in Workers : WorkerPollEmpty(w) /\ UNCHANGED notW
    \/ \E w \in Workers : WorkerGet(w) /\ UNCHANGED notW
    \/ \E w \in Workers : WorkerAcquire(w) /\ UNCHANGED notW
    \/ \E w \in Workers : WorkerExtract(w) /\ UNCHANGED notW
    \/ \E w \in Workers : WorkerFetch(w) /\ UNCHANGED notW
    \/ \E w \in Workers : WorkerAttach(w) /\ UNCHANGED notW
    \/ \E w \in Workers : WorkerCooldown(w) /\ UNCHANGED notW
    \/ \E w \in Workers : WorkerUninit(w) /\ UNCHANGED notW
    \/ MainEsc /\ UNCHANGED notW
    \/ MainSetFlag /\ UNCHANGED notW
    \/ MainPutSentinel /\ UNCHANGED notW
    \/ MainJoinStopped /\ UNCHANGED notW
    \/ MainJoinTimeout /\ UNCHANGED notW

Spec == Init /\ [][Next]_vars

\* the worker thread is scheduled and every call it makes returns
LiveWorker == Spec /\ \A w \in Workers : WF_vars(WorkerRun(w))

\* only the main thread is known to go on
LiveMain == Spec /\ WF_vars(MainRun)

\* one call of get_active_selection after the other, the user acting on the
\* host in between and during the calls
AcqNext ==
    \/ UserSwitchSheet /\ UNCHANGED notA
    \/ UserSelect /\ UNCHANGED notA
    \/ WrapperSync /\ UNCHANGED notA
    \/ AcqCall /\ UNCHANGED notA
    \/ AcqConnect /\ UNCHANGED notA
    \/ AcqRecheck /\ UNCHANGED notA
    \/ AcqFallback /\ UNCHANGED notA
    \/ AcqRefreshBook /\ UNCHANGED notA
    \/ AcqSheet /\ UNCHANGED notA
    \/ AcqSelection /\ UNCHANGED notA
    \/ AcqExcept /\ UNCHANGED notA

AcqSpec == Init /\ [][AcqNext]_vars

\* one call of get_context after the other, each on a sheet of its own
CtxNext ==
    \/ CtxCall /\ UNCHANGED notC
    \/ CtxExtract /\ UNCHANGED notC
    \/ CtxReturn /\ UNCHANGED notC

CtxSpec == Init /\ [][CtxNext]_vars

\* one call of add_note_to_cell after the other on the same sheet
NoteNext ==
    \/ NoteCall /\ UNCHANGED notN
    \/ NoteNarrow /\ UNCHANGED notN
    \/ NoteClear /\ UNCHANGED notN
    \/ NoteWrite /\ UNCHANGED notN
    \/ NoteExcept /\ UNCHANGED notN

NoteSpec == Init /\ [][NoteNext]_vars

\* one call of fetch_comments after the other
FetchNext ==
    \/ FetchCall /\ UNCHANGED notF
    \/ FetchRun /\ UNCHANGED notF
    \/ FetchReturn /\ UNCHANGED notF

FetchSpec == Init /\ [][FetchNext]_vars

\* one request after the other, while the user goes on working in the host
ReqNext ==
    \/ ReqUserSelect /\ UNCHANGED notR
    \/ ReqDequeue /\ UNCHANGED notR
    \/ ReqAcquire /\ UNCHANGED notR
    \/ ReqExtract /\ UNCHANGED notR
    \/ ReqFetch /\ UNCHANGED notR
    \/ ReqAttach /\ UNCHANGED notR
    \/ ReqEnd /\ UNCHANGED notR

ReqSpec == Init /\ [][ReqNext]_vars

\* the steps of a call of get_active_selection that is under way
AcqRun ==
    (AcqConnect \/ AcqRecheck \/ AcqFallback \/ AcqRefreshBook \/ AcqSheet
       \/ AcqSelection \/ AcqExcept) /\ UNCHANGED notA

\* the steps of a call of add_note_to_cell that is under way
NoteRun ==
    (NoteNarrow \/ NoteClear \/ NoteWrite \/ NoteExcept) /\ UNCHANGED notN

\* the two retry loops, each followed on its own: a behaviour is a series of
\* calls of get_active_selection or a series of calls of add_note_to_cell
\* (the two functions have no variable in common), with the user at rest:
\* whether a host operation of an attempt raises is drawn in the attempt.
\* A call that is under way goes on, as the thread that runs it does
RetryNext ==
    \/ npc = "idle" /\ AcqCall /\ UNCHANGED notA
    \/ npc = "idle" /\ AcqConnect /\ UNCHANGED notA
    \/ npc = "idle" /\ AcqRecheck /\ UNCHANGED notA
    \/ npc = "idle" /\ AcqFallback /\ UNCHANGED notA
    \/ npc = "idle" /\ AcqRefreshBook /\ UNCHANGED notA
    \/ npc = "idle" /\ AcqSheet /\ UNCHANGED notA
    \/ npc = "idle" /\ AcqSelection /\ UNCHANGED notA
    \/ npc = "idle" /\ AcqExcept /\ UNCHANGED notA
    \/ apc = "idle" /\ NoteCall /\ UNCHANGED notN
    \/ apc = "idle" /\ NoteNarrow /\ UNCHANGED notN
    \/ apc = "idle" /\ NoteClear /\ UNCHANGED notN
    \/ apc = "idle" /\ NoteWrite /\ UNCHANGED notN
    \/ apc = "idle" /\ NoteExcept /\ UNCHANGED notN

RetrySpec ==
    Init /\ [][RetryNext]_vars /\ WF_vars(AcqRun) /\ WF_vars(NoteRun)

\* ------------------------------------------------------------------------
\* Properties of the task queue and the session worker
\* ------------------------------------------------------------------------
Range(s) == {s[i] : i \in 1..Len(s)}
Positions(s, x) == {i \in 1..Len(s) : s[i] = x}
EnqPos(r) == CHOOSE i \in 1..Len(enqLog) : enqLog[i] = r
EnqueuedReqs == Range(enqLog) \ {0}
DequeuedReqs == {e[1] : e \in Range(callLog)}
Count(r, step) == Cardinality(Positions(callLog, <<r, step>>))
InQueue(r) == Cardinality({i \in 1..Len(task_queue) : task_queue[i].id = r})
Ended(r) == Count(r, "end") > 0
InProcessing == {r \in DequeuedReqs : ~Ended(r)}
PipelineSteps == {"acquire", "extract", "fetch", "attach"}

\* C1: the worker runs the requests in the order of their enqueue: the ids
\* in the call log never go back in enqueue order, no request is skipped,
\* and between two calls made for different requests the earlier request
\* has reached the end of its processing.
C1_FifoOrder ==
    /\ DequeuedReqs \subseteq EnqueuedReqs
    /\ \A i, j \in 1..Len(callLog) :
          (i < j /\ callLog[i][1] # callLog[j][1]) =>
             /\ EnqPos(callLog[i][1]) < EnqPos(callLog[j][1])
             /\ \E k \in i..(j - 1) : callLog[k] = <<callLog[i][1], "end">>
    /\ \A r \in DequeuedReqs : \A q \in EnqueuedReqs :
          EnqPos(q) < EnqPos(r) => q \in DequeuedReqs

\* two requests, enqueued one after the other, both went through the
\* pipeline up to the note
C1_Witness ==
    \E r, q \in DequeuedReqs :
       /\ r # q
       /\ Count(r, "attach") = 1 /\ Count(q, "attach") = 1
       /\ Ended(r) /\ Ended(q)

\* C2: at most one request is in Processing (dequeued, not yet ended), and
\* at most one thread is at a pipeline position.
C2_OneProcessing ==
    /\ Cardinality(InProcessing) <= 1
    /\ Cardinality({w \in Workers : wpc[w] \in ProcPcs}) <= 1

\* a request is in the pipeline while another one waits in the queue and a
\* dialog thread is about to enqueue
C2_Witness ==
    /\ \E w \in Workers : wpc[w] = "fetch"
    /\ \E i \in 1..Len(task_queue) : task_queue[i] # NoneTask
    /\ dialogs > 0

\* C3: only the worker is ever inside a call into the host, and no two
\* threads are inside such calls at the same time.
InHostWorkers == {w \in Workers : wpc[w] \in HostPcs}
InHostHealth == {h \in HealthThreads : hpc[h] = "check"}
C3_OnlyWorkerInHost ==
    /\ InHostHealth = {}
    /\ Cardinality(InHostWorkers) + Cardinality(InHostHealth) <= 1

\* C4 as stated: when the worker has stopped, every request that was
\* enqueued before the sentinel has been dequeued and processed once.
BeforeSentinel ==
    {r \in EnqueuedReqs : \E i \in 1..Len(enqLog) :
                             enqLog[i] = 0 /\ EnqPos(r) < i}
C6_JoinReturns == (mpc = "join") ~> (mpc = "done")

\* main has finished while the worker is still inside a call of a request
C6_Witness ==
    /\ mpc = "done"
    /\ \E w \in Workers : wpc[w] \in {"acquire", "attach"}

C8_AlwaysBackToIdle ==
    /\ \A w \in Workers : (wpc[w] \in ProcPcs) ~> (wpc[w] \in IdlePcs)
    /\ [](\A w \in Workers :
             wpc[w] \in {"start", "test", "uninit", "stopped"} \cup IdlePcs \cup ProcPcs)
    /\ [][\A w \in Workers :
             (wpc'[w] = "uninit" /\ wpc[w] # "uninit") =>
                \/ wpc[w] = "loop" /\ shutdown_flag
                \/ wpc[w] = "poll" /\ task_queue # <<>>
                                   /\ Head(task_queue) = NoneTask]_vars

\* the worker is back at the loop test after a request whose fetch raised
C8_Witness ==
    /\ \E w \in Workers : wpc[w] = "loop"
    /\ Len(callLog) >= 2
    /\ callLog[Len(callLog)][2] = "end"
    /\ callLog[Len(callLog) - 1][2] = "fetch"

\* ------------------------------------------------------------------------
\* Properties of the resource handle acquirer
\* ------------------------------------------------------------------------
StaleDetected == {"corrected", "uncorrected", "abandoned"}

\* C9: when step 5 finds the wrapper's selection on a sheet other than the
\* live active sheet, the attempt returns a handle whose sheet is the live
\* active sheet and whose selection is the live row and column on that
\* sheet.
C9_StaleCorrected ==
    [][(apc = "selection" /\ apc' # apc /\ path' \in StaleDetected) =>
          /\ apc' = "done"
          /\ result'.sheet = liveSheet
          /\ result'.selsheet = liveSheet
          /\ result'.cell = liveSel]_vars

\* C10: on every path, the handle a successful call returns has the live
\* active sheet as its sheet and a selection that lies on that sheet.
C10_HandleConsistent ==
    [][(apc = "selection" /\ apc' = "done") =>
          /\ result'.sheet = liveSheet
          /\ result'.selsheet = result'.sheet]_vars

\* the errors the specification calls connection errors: no host process
\* running, no open document, no active sheet
ConnectionErrors == {"NoHost", "NoBook", "NoSheet"}

\* C11: an attempt that ends in a connection error ends the call at once:
\* the call returns the failure value, no backoff wait is made and no
\* further attempt is started.
C11_ConnectionErrorImmediate ==
    [][(apc = "except" /\ last_error \in ConnectionErrors /\ apc' # apc) =>
          /\ apc' = "done"
          /\ result' = Failure
          /\ waits' = waits]_vars

\* the error message a returned value lets its caller read
ErrorOf(res) == IF "error" \in DOMAIN res THEN res.error ELSE "None"

\* C12: when every one of the max_retries attempts has failed, the value
\* returned carries the error of the last attempt, so that the caller can
\* tell a failure by exhaustion from a failure by connection error.
C12_FailureCarriesError ==
    (apc = "done" /\ max_retries > 0 /\ attempt = max_retries) =>
       /\ ErrorOf(result) = last_error
       /\ (ErrorOf(result) \in ConnectionErrors) =
             (last_error \in ConnectionErrors)

\* C13: a call whose attempts fail k < max_retries times and then succeed
\* returns the handle built by attempt k + 1 from that attempt's app and
\* sheet, after exactly k waits; the wait before retry i (from 0) is
\* RETRY_DELAY_BASE * 2^i, and no wait is shorter than the one before it.
C13_BackoffThenHandle ==
    /\ [][(apc = "selection" /\ apc' = "done") =>
             /\ attempt < max_retries
             /\ Len(waits) = attempt
             /\ result'.app = app /\ result'.app # "None"
             /\ result'.sheet = sheet /\ result'.sheet # NoSheet]_vars
    /\ [](\A i \in 1..Len(waits) : waits[i] = RETRY_DELAY_BASE * 2^(i - 1))
    /\ [](\A i, j \in 1..Len(waits) : i <= j => waits[i] <= waits[j])

\* two attempts failed, the third one returned a handle
C13_Witness ==
    /\ apc = "done"
    /\ result.app # "None"
    /\ attempt = 2
    /\ waits = <<RETRY_DELAY_BASE, 2 * RETRY_DELAY_BASE>>

\* ------------------------------------------------------------------------
\* Properties of the context extractor
\* ------------------------------------------------------------------------
\* the sample texts that are labels; the other cell states are empty,
\* blank, numeric, a formatted number or unreadable
LabelTexts == {<<"a">>, <<" ", "b">>}
HoldsLabel(st) == st.k = "str" /\ st.s \in LabelTexts
MaxOf(S) == CHOOSE x \in S : \A y \in S : y <= x
LabelCols == {c \in 1..(csel[2] - 1) : HoldsLabel(grid[<<csel[1], c>>])}
LabelRows == {r \in 1..(csel[1] - 1) : HoldsLabel(grid[<<r, csel[2]>>])}

\* C14: for a selection with no label-like cell to its left in its row,
\* none above it in its column and none at (1,1), get_context returns
\* "UNKNOWN", "Unknown Period" and "Unknown Line Item".
C14_DefaultsWhenNoLabel ==
    (cpc = "done" /\ ~cfails /\ \A c \in DOMAIN grid : ~HoldsLabel(grid[c])) =>
       /\ context.ticker = UNKNOWN
       /\ context.time_period = UnknownPeriod
       /\ context.line_item = UnknownLineItem

\* the cell to the left holds a formatted number, the read of the cell
\* above raises and (1,1) holds a number: all three defaults are returned
C14_Witness ==
    /\ cpc = "done" /\ ~cfails /\ csel = <<2, 2>>
    /\ grid[<<2, 1>>] = Str(<<"$", "1">>)
    /\ grid[<<1, 2>>] = Throws
    /\ grid[<<1, 1>>] = NumVal
    /\ context.line_item = UnknownLineItem
    /\ context.ticker = UNKNOWN

\* C15: get_context always returns a complete dict, and whatever read
\* fails, a cell's or the selection's own, the fields it cannot fill are
\* "UNKNOWN", "Unknown Period" and "Unknown Line Item".
C15_FailuresGiveDefaults ==
    cpc = "done" =>
       /\ context.ticker # <<>> /\ context.time_period # <<>>
       /\ context.line_item # <<>>
       /\ cfails =>
             /\ context.ticker = UNKNOWN
             /\ context.time_period = UnknownPeriod
             /\ context.line_item = UnknownLineItem
       /\ (~cfails /\ \A c \in DOMAIN grid : grid[c] = Throws) =>
             /\ context.ticker = UNKNOWN
             /\ context.time_period = UnknownPeriod
             /\ context.line_item = UnknownLineItem
             /\ context.cell_address = csel

\* C16 as stated: line_item is the value of the label-like cell nearest to
\* the selection on its left, time_period the value of the nearest one
\* above, ticker the value of (1,1) when label-like; other cells are
\* skipped.
C16_NearestLabelValue ==
    (cpc = "done" /\ ~cfails) =>
       /\ LabelCols # {} =>
             context.line_item = grid[<<csel[1], MaxOf(LabelCols)>>].s
       /\ LabelRows # {} =>
             context.time_period = grid[<<MaxOf(LabelRows), csel[2]>>].s
       /\ HoldsLabel(grid[<<1, 1>>]) => context.ticker = grid[<<1, 1>>].s

\* C16 amended: the three fields are the texts of those values with the
\* surrounding blanks removed.
C16_NearestLabelText ==
    (cpc = "done" /\ ~cfails) =>
       /\ LabelCols # {} =>
             context.line_item = Strip(grid[<<csel[1], MaxOf(LabelCols)>>].s)
       /\ LabelRows # {} =>
             context.time_period = Strip(grid[<<MaxOf(LabelRows), csel[2]>>].s)
       /\ HoldsLabel(grid[<<1, 1>>]) =>
             context.ticker = Strip(grid[<<1, 1>>].s)

\* two labels to the left, the nearer one typed with a leading blank; above,
\* an unreadable cell between the selection and the label
C16_Witness ==
    /\ cpc = "done" /\ ~cfails /\ csel = <<3, 3>>
    /\ grid[<<3, 1>>] = Str(<<"a">>)
    /\ grid[<<3, 2>>] = Str(<<" ", "b">>)
    /\ grid[<<2, 3>>] = Throws
    /\ grid[<<1, 3>>] = Str(<<"a">>)
    /\ context.line_item = <<"b">>
    /\ context.time_period = <<"a">>

\* ------------------------------------------------------------------------
\* Properties of the note writer
\* ------------------------------------------------------------------------

\* C17: a call that succeeds leaves the top-left cell of its selection with
\* one note made of the text of this call alone, whatever note the cell had
\* before; no cell ever holds more than one text.
C17_OverwriteNotAppend ==
    /\ [][(npc = "write" /\ npc' = "done" /\ ret' = "True") =>
             notes'[selection.tl] = <<note_text>>]_vars
    /\ [](\A c \in NoteCells : Len(notes[c]) <= 1)

\* a call with text B has succeeded on a cell that held the note A
C17_Witness ==
    /\ npc = "done" /\ ret = "True"
    /\ before = <<"A">>
    /\ note_text = "B"
    /\ notes[selection.tl] = <<"B">>

\* C18: no step of add_note_to_cell creates, changes or clears the note of
\* a cell other than the top-left cell of the selection.
C18_OnlyTopLeftTouched ==
    [][\A c \in NoteCells \ {selection.tl} : notes'[c] = notes[c]]_vars

C20_NoRequeue ==
    [][/\ (wpc' # wpc) =>
             \/ task_queue' = task_queue
             \/ /\ task_queue # <<>>
                /\ task_queue' = Tail(task_queue)
                /\ \E w \in Workers : wpc[w] = "poll" /\ wpc'[w] # "poll"
       /\ (wpc' = wpc /\ task_queue' # task_queue) =>
             /\ Len(task_queue') = Len(task_queue) + 1
             /\ SubSeq(task_queue', 1, Len(task_queue)) = task_queue
             /\ enqLog' = Append(enqLog, task_queue'[Len(task_queue')].id)]_vars

\* a request has ended because acquire returned no selection, another one
\* has ended after an attach, and neither is in the queue
C20_Witness ==
    /\ \E r \in DequeuedReqs :
          /\ Ended(r) /\ Count(r, "extract") = 0 /\ InQueue(r) = 0
    /\ \E r \in DequeuedReqs :
          /\ Ended(r) /\ Count(r, "attach") = 1 /\ InQueue(r) = 0
    /\ \A w \in Workers : wpc[w] = "loop"

\* ------------------------------------------------------------------------
\* Properties of the producers
\* ------------------------------------------------------------------------
PendingRequests == {i \in 1..Len(task_queue) : task_queue[i] # NoneTask}

\* C21: a producer that has something to put can always put it and go on,
\* whatever the length of the queue and the position of the worker: the
\* hotkey handler, the dialog thread with a prompt, and main with the
\* sentinel; a handler that starts a dialog thread returns without it.
C21_PutNeverBlocks ==
    /\ (mpc # "done" /\ nextId <= MaxReq) =>
          ENABLED (HotkeyV1 /\ UNCHANGED notW)
    /\ (dialogs > 0 /\ nextId <= MaxReq) =>
          ENABLED (UiSubmit /\ UNCHANGED notW)
    /\ (mpc # "done" /\ dialogs < MaxDialogs) =>
          ENABLED (HotkeyV2 /\ UNCHANGED notW)
    /\ mpc = "put" =>
          ENABLED (MainPutSentinel /\ UNCHANGED notW)

\* two requests and the sentinel are in the queue and the worker has not
\* even reached its loop
C21_Witness ==
    /\ Cardinality(PendingRequests) = 2
    /\ Len(task_queue) = 3
    /\ \A w \in Workers : wpc[w] = "start"

\* ------------------------------------------------------------------------
\* Properties of task_done and of a join on the queue
\* ------------------------------------------------------------------------
\* sentinels the worker has taken: they are never marked done
SentinelsTaken ==
    Cardinality(Positions(enqLog, 0))
       - Cardinality({i \in 1..Len(task_queue) : task_queue[i] = NoneTask})

\* C22 as stated: when the processing of a request ends, a thread waiting
\* in task_queue.join() is released (the unfinished count is 0), and the
\* request was marked done once.
C22_JoinReleasedAtEnd ==
    [][\A r \in EnqueuedReqs :
          (Ended(r)' /\ ~Ended(r)) =>
             /\ unfinished' = 0
             /\ Count(r, "end")' = 1]_vars

\* C22 amended: task_done is called once for every request the worker
\* dequeued, at the end of its processing on every path, and never
\* otherwise: the unfinished count is the number of items in the queue, in
\* processing, and of sentinels taken.  When the processing of a request
\* ends, a join is released if and only if the queue is empty.
C22_DoneOncePerRequest ==
    /\ [](unfinished = Len(task_queue) + Cardinality(InProcessing)
                          + SentinelsTaken)
    /\ [](\A r \in DequeuedReqs : Count(r, "end") <= 1)
    /\ [][\A r \in EnqueuedReqs :
             (Ended(r)' /\ ~Ended(r)) =>
                /\ unfinished' = unfinished - 1
                /\ unfinished' = Len(task_queue')
                /\ Count(r, "end")' = 1]_vars

\* a request has ended after the note step, another one ended for want of
\* a selection, a third item is still queued: the count is 1
C22_Witness ==
    /\ \E r \in DequeuedReqs : Ended(r) /\ Count(r, "attach") = 1
    /\ \E r \in DequeuedReqs : Ended(r) /\ Count(r, "extract") = 0
    /\ Len(task_queue) = 1
    /\ unfinished = 1

\* ------------------------------------------------------------------------
\* Properties of the annotation source
\* ------------------------------------------------------------------------
Contains(text, x) ==
    \E i \in 1..(Len(text) - Len(x) + 1) : SubSeq(text, i, i + Len(x) - 1) = x

\* C23: the text fetch_comments returns contains the ticker, the period
\* and the line item it was called with, for a line item that is a key of
\* the mock data and for one that is not.
C23_TextNamesArguments ==
    fpc = "done" =>
       /\ Contains(formatted, ticker)
       /\ Contains(formatted, period)
       /\ Contains(formatted, line_item)

\* the call was made with "EPS", a key whose comments name no ticker
C23_Witness ==
    /\ fpc = "done"
    /\ line_item = <<"E", "P", "S">>
    /\ ticker = <<"a">>
    /\ Contains(formatted, <<"Share buybacks contributed to EPS growth.">>)

\* C26: get_active_selection returns four references that are all set or
\* all None, whatever the host raises during the attempts, and every raise
\* inside an attempt is caught by the handler of the retry loop.
C26_AllOrNothing ==
    /\ apc = "done" =>
          \/ result = Failure
          \/ /\ result.app # "None"
             /\ result.book # "None"
             /\ result.sheet # NoSheet
             /\ result.selsheet # NoSheet
             /\ result.cell # NoSel
    /\ apc \in {"idle", "connect", "recheck", "refresh", "sheet", "selection",
                "except", "done"} \cup HandlerPcs
    /\ apc = "except" =>
          /\ last_error # "None"
          /\ ENABLED (AcqExcept /\ UNCHANGED notA)

\* a handle built from the wrapper's active app and active book, returned
\* by a later attempt after a failed one
C26_Witness ==
    /\ apc = "done"
    /\ attempt > 0
    /\ last_error = "NoBook"
    /\ result.app = "active"
    /\ result.book = "active"
    /\ result.cell # NoSel

\* C28: an attempt takes the wrapper's active instance as its app only
\* from the handler reached because the low-level interface is unavailable;
\* an error detected through the working interface (host not ready, no
\* active workbook, no active sheet) ends the attempt instead.
C28_FallbackOnlyWhenUnavailable ==
    [][/\ (app' = "active" /\ apc' = "refresh" /\ apc # "refresh") =>
             apc = "unavailable"
       /\ (apc \in {"notready", "detected"} /\ apc' # apc) =>
             apc' = "except"]_vars

\* C29: a readiness poll that times out is followed by one more poll, and
\* an attempt whose second poll times out as well is declared failed: it
\* goes to the handler of the retry loop, not on to steps 2 to 5.
C29_NotReadyFailsAttempt ==
    [][/\ (apc' = "notready" /\ apc # "notready") => apc = "recheck"
       /\ (apc' = "recheck" /\ apc # "recheck") => apc = "connect"
       /\ (apc = "notready" /\ apc' # "notready") => apc' = "except"]_vars

\* C30: the selection an attempt returns after the sheet check of step 5
\* (found on the right sheet, or rebuilt) lies on the sheet that step 4
\* resolved and that the attempt returns, also when the user switched the
\* active sheet between the two steps.
C30_VerifiedAgainstResolvedSheet ==
    [][(apc = "selection" /\ apc' = "done"
          /\ path' \in {"verified", "corrected"}) =>
          /\ result'.sheet = sheet
          /\ result'.selsheet = sheet]_vars

\* ------------------------------------------------------------------------
\* Properties of the worker's loop
\* ------------------------------------------------------------------------
\* C24: the worker goes back to Idle from a request only through the
\* cooldown delay, also when the request ended because acquire returned no
\* selection.
C24_CooldownBeforeIdle ==
    [][\A w \in Workers :
          (wpc[w] \in ProcPcs /\ wpc'[w] \in IdlePcs) =>
             wpc[w] = "cooldown"]_vars

\* C27: the worker calls CoInitialize exactly once, before its first host
\* call, and CoUninitialize exactly once, after it has left its loop by the
\* shutdown flag or by the sentinel; it is at no host call before the first
\* or after the second.
C27_ComLifetime ==
    /\ [](\A w \in Workers :
             /\ com[w].init = (IF wpc[w] = "start" THEN 0 ELSE 1)
             /\ com[w].uninit = (IF wpc[w] = "stopped" THEN 1 ELSE 0)
             /\ wpc[w] \in HostPcs => com[w].init = 1 /\ com[w].uninit = 0)
    /\ [][\A w \in Workers :
             (wpc[w] \in IdlePcs \cup ProcPcs
                 /\ wpc'[w] \notin IdlePcs \cup ProcPcs) =>
                /\ wpc'[w] = "uninit"
                /\ \/ wpc[w] = "loop" /\ shutdown_flag
                   \/ wpc[w] = "poll" /\ task'[w] = NoneTask]_vars
    /\ \A w \in Workers : (wpc[w] = "uninit") ~> (wpc[w] = "stopped")

\* the worker has stopped once by the sentinel it dequeued; in another run
\* it stops by the flag (the sentinel is still queued)
C27_Witness ==
    \E w \in Workers :
       /\ wpc[w] = "stopped"
       /\ com[w] = [init |-> 1, uninit |-> 1]
       /\ task[w] = NoneTask
       /\ \E r \in DequeuedReqs : Ended(r)

\* C25: an idle worker pumps the host's messages before every poll of the
\* queue: a poll is entered only from the pump, a poll always ends (with an
\* item, or empty-handed after the timeout), and the worker never waits in a
\* poll that nothing can end.
C25_PumpBeforeEveryPoll ==
    /\ [][\A w \in Workers :
             (wpc'[w] = "poll" /\ wpc[w] # "poll") => wpc[w] = "pump"]_vars
    /\ [][\A w \in Workers :
             (wpc[w] = "poll" /\ wpc'[w] # "poll") =>
                wpc'[w] \in {"loop", "acquire", "uninit"}]_vars
    /\ [](\A w \in Workers :
             wpc[w] = "poll" =>
                ENABLED ((WorkerPollEmpty(w) \/ WorkerGet(w))
                            /\ UNCHANGED notW))
    /\ \A w \in Workers : (wpc[w] = "poll") ~> (wpc[w] # "poll")

\* the worker polls an empty queue again after it has served a request
C25_Witness ==
    /\ \E w \in Workers : wpc[w] = "poll"
    /\ task_queue = <<>>
    /\ \E r \in DequeuedReqs : Ended(r)
    /\ ~shutdown_flag

\* ------------------------------------------------------------------------
\* Properties of the attempts of the acquirer
\* ------------------------------------------------------------------------
\* C31: step 3 takes the workbook, and step 4 the sheet, by the name read
\* live; the wrapper's cached active workbook or sheet is taken only in an
\* attempt whose live read or lookup by name failed, and a handle returned
\* with the cached active workbook comes from such an attempt.
C31_ByLiveName ==
    /\ [][(apc = "refresh" /\ apc' = "sheet") =>
             /\ ("book" \notin failed') => book' = "byname"
             /\ ("book" \in failed') => book' = "active"]_vars
    /\ [][(apc = "sheet" /\ apc' = "selection") =>
             /\ ("sheet" \notin failed') => sheet' = liveSheet
             /\ ("sheet" \in failed') => sheet' = xwActive]_vars
    /\ [](apc = "done" /\ result # Failure =>
             /\ (result.book = "active") = ("book" \in failed)
             /\ (result.sheet = sheet))

\* a handle with the cached active workbook and a cached active sheet that
\* is not the live one, after both lookups failed
C31_Witness ==
    /\ apc = "done"
    /\ failed = {"book", "sheet"}
    /\ result.book = "active"
    /\ result.sheet = xwActive
    /\ result.sheet # liveSheet

\* C32: when the read of the wrapper's selection raises, the attempt
\* returns the selection rebuilt on the resolved sheet from the live row and
\* column; step 5 fails an attempt only when the live selection is None or
\* cannot be read.
C32_RebuiltFromLiveSelection ==
    /\ [][(apc = "selection" /\ path' = "fallback" /\ apc' # apc) =>
             /\ apc' = "done"
             /\ liveSel # NoSel
             /\ result'.sheet = sheet
             /\ result'.selsheet = sheet
             /\ result'.cell = liveSel]_vars
    /\ [][(apc = "selection" /\ apc' = "except") =>
             /\ path' = "failed"
             /\ \/ last_error' = "NoSelection" /\ liveSel = NoSel
                \/ last_error' = "SelectionUnreadable"]_vars
    /\ [](apc = "selection" /\ liveSel # NoSel =>
             ENABLED (AcqSelection /\ path' = "fallback" /\ UNCHANGED notA))

\* the rebuilt selection differs from the one the wrapper has cached
C32_Witness ==
    /\ apc = "done"
    /\ path = "fallback"
    /\ result.cell = liveSel
    /\ result.cell # xwSel.cell
    /\ result.selsheet # xwSel.sheet

\* ------------------------------------------------------------------------
\* Properties of the reads of the context extractor
\* ------------------------------------------------------------------------
\* the reads of one axis: cell after cell from the cell next to the
\* selection towards index 1, none after the first label-like cell, and
\* ended before index 1 only by a label-like cell
AxisScanned(rs, n, cellAt(_)) ==
    /\ Len(rs) <= n
    /\ \A i \in 1..Len(rs) : rs[i] = cellAt(i)
    /\ \A i \in 1..(Len(rs) - 1) :
          ~IsLikelyLabel(SafeReadCell(grid, rs[i][1], rs[i][2]))
    /\ Len(rs) < n =>
          IsLikelyLabel(SafeReadCell(grid, rs[Len(rs)][1], rs[Len(rs)][2]))

\* C33: a call of get_context ends after at most (column - 1) + (row - 1)
\* + 1 reads: each axis is scanned once from the cell next to the selection
\* towards index 1 and no further than the first label-like cell, no cell
\* is read twice on an axis, and the reads of a call are gone when the
\* next call starts.
C33_BoundedReads ==
    /\ cpc # "done" => reads = NoReads /\ context = NoContext
    /\ (cpc = "done" /\ cfails) => reads = NoReads
    /\ (cpc = "done" /\ ~cfails) =>
          LET LeftOf(i) == <<csel[1], csel[2] - i>>
              Above(i) == <<csel[1] - i, csel[2]>>
          IN /\ Len(reads.left) + Len(reads.up) + Len(reads.a1)
                   <= (csel[2] - 1) + (csel[1] - 1) + 1
             /\ AxisScanned(reads.left, csel[2] - 1, LeftOf)
             /\ AxisScanned(reads.up, csel[1] - 1, Above)
             /\ reads.a1 = <<<<1, 1>>>>

\* the scan to the left stopped at the first cell, the scan upwards went to
\* row 1 without finding a label
C33_Witness ==
    /\ cpc = "done" /\ ~cfails /\ csel = <<3, 3>>
    /\ Len(reads.left) = 1
    /\ Len(reads.up) = 2
    /\ context.time_period = UnknownPeriod
    /\ context.line_item # UnknownLineItem

\* ------------------------------------------------------------------------
\* Properties of the attempts of the note writer
\* ------------------------------------------------------------------------
\* C34: in every attempt the clear comes before the write: ClearComments is
\* the first host call, the note object is read and deleted only after
\* ClearComments raised, and whatever the clear raises the attempt goes on
\* to AddComment.
C34_ClearBeforeWrite ==
    /\ [][(npc = "clear" /\ npc' # npc) => npc' = "write"]_vars
    /\ [][(npc' = "write" /\ npc # npc') => npc = "clear"]_vars
    /\ [](npc = "write" =>
             /\ ncalls # <<>>
             /\ ncalls[1].call = "ClearComments"
             /\ (Len(ncalls) > 1) = ~ncalls[1].ok
             /\ \A i \in 2..Len(ncalls) :
                   ncalls[i].call \in {"Comment", "Comment.Delete"})
    /\ [](\A i \in 1..Len(ncalls) :
             ncalls[i].call = "AddComment" => i = Len(ncalls) /\ i > 1)

\* both clear paths failed on a cell with a note, and AddComment was called
\* and refused
C34_Witness ==
    /\ npc = "except"
    /\ Len(ncalls) = 3
    /\ ~ncalls[1].ok /\ ~ncalls[2].ok
    /\ ncalls[3] = [call |-> "AddComment", ok |-> FALSE]
    /\ notes[cell_api.tl] # NoNote

\* ------------------------------------------------------------------------
\* Properties of the pipeline of a request
\* ------------------------------------------------------------------------
\* C35: for each request the worker calls acquire once, right after the
\* dequeue, then extract, fetch and attach in that order, each at most once
\* and each with the handle that the acquire of this request returned; when
\* acquire returns no selection the request ends without any of the three.
C35_PipelinePerRequest ==
    /\ [](\A r \in DequeuedReqs : \A st \in PipelineSteps : Count(r, st) <= 1)
    /\ [](\A i \in 1..Len(callLog) :
             LET r == callLog[i][1]
                 st == callLog[i][2]
                 prev == IF i > 1 THEN callLog[i - 1] ELSE <<0, "none">>
             IN /\ st = "acquire" => prev = <<r, "dequeue">>
                /\ st = "extract" => prev = <<r, "acquire">>
                /\ st = "fetch" => prev = <<r, "extract">>
                /\ st = "attach" => prev = <<r, "fetch">>)
    /\ [](\A w \in Workers :
             wpc[w] \in {"extract", "fetch", "attach"} =>
                handle[w] # 0 /\ handle[w] = task[w].id)
    /\ [][\A w \in Workers :
             (wpc[w] = "acquire" /\ wpc'[w] # "acquire") =>
                \/ wpc'[w] = "extract" /\ handle'[w] = task[w].id
                \/ wpc'[w] = "loop" /\ handle'[w] = 0
                                   /\ Ended(task[w].id)'
                                   /\ Count(task[w].id, "extract")' = 0
                \/ wpc'[w] = InnerExcept /\ handle'[w] = handle[w]]_vars

\* the second request is at attach with its own handle after the first
\* request went through the whole pipeline
C35_Witness ==
    \E w \in Workers :
       /\ wpc[w] = "attach"
       /\ task[w].id = 2
       /\ handle[w] = 2
       /\ Count(1, "attach") = 1
       /\ Count(2, "fetch") = 1

\* C36: from the moment the shutdown flag is set the worker dequeues at
\* most one more request, and a worker with a request in progress goes from
\* it to the loop test and out without a dequeue; the flag stays set, the worker leaves its loop at the next loop
\* test and stops, and the requests it has not dequeued stay in the queue.
C36_AtMostOneMoreRequest ==
    /\ \A n \in 0..MaxReq :
          [](shutdown_flag /\ Cardinality(DequeuedReqs) = n =>
                [](Cardinality(DequeuedReqs) <= n + 1))
    /\ [][\A w \in Workers :
             (shutdown_flag /\ wpc[w] \in ProcPcs \cup {"loop"}
                 /\ wpc'[w] # wpc[w]) =>
                wpc'[w] \in ProcPcs \cup {"loop", "uninit"} /\ task' = task]_vars
    /\ [][shutdown_flag => shutdown_flag']_vars
    /\ [](\A r \in EnqueuedReqs \ DequeuedReqs : InQueue(r) = 1)
    /\ shutdown_flag ~> AllStopped

\* the worker has stopped by the flag after one request: another request
\* and the sentinel are left in the queue
C36_Witness ==
    /\ AllStopped
    /\ Cardinality(DequeuedReqs) = 1
    /\ Len(task_queue) = 2
    /\ task_queue[1] # NoneTask
    /\ task_queue[2] = NoneTask

\* C37: when add_note_to_cell returns False no AddComment of the call has
\* taken effect: the top-left cell of the selection holds the note it had
\* when the call began, or no note at all after a clear that succeeded in
\* an attempt whose write failed.
C37_FalseLeavesOldOrNone ==
    /\ (npc = "done" /\ ret = "False") =>
          notes[selection.tl] \in {before, NoNote}
    /\ (npc \in {"narrow", "clear", "write", "except"}) =>
          notes[selection.tl] \in {before, NoNote}

\* False is returned and the cell has lost the note it had
C37_Witness ==
    /\ npc = "done" /\ ret = "False"
    /\ before # NoNote
    /\ before # <<note_text>>
    /\ notes[selection.tl] = NoNote
    /\ nattempt = 3

\* ------------------------------------------------------------------------
\* Properties of the references of a request
\* ------------------------------------------------------------------------
\* C38: the note of a request goes to the cell that acquire returned at the
\* start of the request: between acquire and the note the worker's
\* selection stays what it was, whatever the user selects meanwhile, and
\* the cell that receives the note is that selection.
C38_NoteOnCapturedCell ==
    /\ [][(rpc \in {"extract", "fetch", "attach"}) => wsel' = wsel]_vars
    /\ [][(rpc = "attach" /\ rpc' = "done") =>
             noteCell' \in {wsel, NoRange}]_vars
    /\ [](rpc = "done" /\ noteCell # NoRange => noteCell = wsel)
    /\ [](rpc \in {"extract", "fetch", "attach", "done"} => wsel # NoRange)

\* the note is on the captured cell although the user is on another sheet
\* by now
C38_Witness ==
    /\ rpc = "done"
    /\ noteCell = wsel
    /\ hostSel.sheet # wsel.sheet
    /\ hostSel.cell # wsel.cell

\* ------------------------------------------------------------------------
\* Properties of the two retry loops
\* ------------------------------------------------------------------------
\* the attempts a call may make, and the sleeps between them
MostAttempts(n) == IF n <= 0 THEN 0 ELSE n
MostWaits(n) == IF n <= 0 THEN 0 ELSE n - 1

\* C39: a call of get_active_selection and a call of add_note_to_cell each
\* come to their return; a call makes at most max_retries attempts and
\* sleeps at most max_retries - 1 times, never after the attempt that was
\* the last one allowed, and with max_retries <= 0 it returns its failure
\* value (the four None, respectively False) without an attempt.
C39_BoundedRetries ==
    /\ (apc \notin {"idle", "done"}) ~> (apc = "done")
    /\ (npc \notin {"idle", "done"}) ~> (npc = "done")
    /\ [](/\ attempt <= MostAttempts(max_retries)
          /\ Len(waits) <= MostWaits(max_retries)
          /\ nattempt <= MostAttempts(note_retries)
          /\ Len(nwaits) <= MostWaits(note_retries))
    /\ [](/\ apc \notin {"idle", "done"} => attempt < max_retries
          /\ npc \notin {"idle", "done"} => nattempt < note_retries)
    /\ [][/\ (apc = "except" /\ attempt = max_retries - 1) =>
                (waits' = waits /\ (apc' = "except" \/ apc' = "done"))
          /\ (npc = "except" /\ nattempt = note_retries - 1) =>
                (nwaits' = nwaits /\ (npc' = "except" \/ npc' = "done"))
          /\ Len(waits') > Len(waits) => apc' = "connect"
          /\ Len(nwaits') > Len(nwaits) => npc' = "narrow"]_vars
    /\ [](/\ max_retries <= 0 =>
                /\ apc = "done" /\ result = Failure
                /\ attempt = 0 /\ waits = <<>>
                /\ failed = {} /\ path = "none"
          /\ note_retries <= 0 =>
                /\ npc = "done" /\ ret = "False"
                /\ nattempt = 0 /\ nwaits = <<>>
                /\ ncalls = <<>> /\ notes[selection.tl] = before)

\* a call with max_retries = -1 has returned the four None at once
C39_Witness ==
    /\ apc = "done"
    /\ max_retries < 0
    /\ result = Failure
    /\ attempt = 0

====
